---- MODULE Spec2Model ----
(***************************************************************************)
(* A model of the jsson-cpp JSON engine: the binary pack/unpack codec      *)
(* (both the library implementation and the header implementation) and     *)
(* the recursive-descent parser.                                           *)
(*                                                                         *)
(* Conventions.  Bytes are 0..255.  A fixed-width integer is a sequence of *)
(* 16-bit limbs, most significant limb first (an int64_t or the bit        *)
(* pattern of a double is 4 limbs, an int or uint32_t is 2 limbs), in two's *)
(* complement.  Buffer positions are 0-based as in the source: buffer[pos] *)
(* of the source is buf[pos + 1] here.                                     *)
(***************************************************************************)
EXTENDS Integers, Sequences, FiniteSets, TLC

VARIABLES
    impl,       \* which PackUnpack is linked: "cpp" (pack_unpack.cpp) or "hdr" (header)
    endian,     \* byte order of the host: "little" or "big"
    hardened,   \* TRUE when the standard library is built with its assertions on
    buffer,     \* the Buffer handed to unpack
    pos,        \* the caller's cursor (size_t& pos)
    pos0,       \* the cursor at entry of the last unpack call
    packedBuf,  \* what the last pack call returned
    packed,     \* the (type, value) the last pack call was given
    result,     \* outcome of the last pack / unpack call
    cpc,        \* "idle", "loaded", "called", "aborted", "packfail"
    fileText,   \* the bytes of the file Parser::parse is given
    view,       \* std::string_view view: the characters that remain
    stack,      \* the active calls of the parsing functions, innermost last
    ret,        \* the value the call that returned last handed to its caller
    root,       \* what Parser::parse returned
    ppc,        \* "off", "start", "run", "done", "error", "abort", "crash"
    err,        \* what() of the exception that left Parser::parse
    tree,       \* the JsonValue handed to JsonDumper::dump
    dumped,     \* what JsonDumper::dump wrote for tree
    redumped,   \* what JsonDumper::dump wrote for the root parsed from dumped
    dpc,        \* "off", "built", "written", "rewritten"
    val,        \* the jasson::Value an accessor is called on
    got,        \* outcome of the last accessor call
    cls,        \* "JsonObject" or "JsonArray": the class of the container that is copied
    heap,       \* the JsonValue nodes that the shared pointers point to, by address
    original,   \* data_ of the container: the pointer held under each key or index
    copied,     \* data_ of the copy
    last,       \* the container the last mutation went through
    kpc,        \* "off", "built", "copied"
    tpc,        \* for each thread, where it is in Value::NullValue() or with its result
    made,       \* TRUE when the static null_value has been initialized
    map_,       \* HashTable::map_: the value stored under each key
    mutex_,     \* HashTable::mutex_: its exclusive owner (0 when none) and its shared owners
    thr,        \* for each thread, the HashTable operation it is in and how far it got
    ucp,        \* the code point handed to Utf8::encode
    ustr,       \* the std::string of bytes: out of encode, str of decode and isValid
    uindex,     \* size_t& index of Utf8::decode
    ures,       \* what the last call of a Utf8 function returned
    calls,      \* the Utf8 functions called so far, in order
    buffer_,    \* StringBuffer::buffer_: size() of the std::string and the characters of its allocation
    size_,      \* StringBuffer::size_
    content,    \* the character sequence the calls made so far describe
    sbpc        \* "off", "live", "thrown", "abort"

buildVars == <<impl, endian, hardened>>
codecVars == <<buffer, pos, pos0, packedBuf, packed, result, cpc>>
parserVars == <<fileText, view, stack, ret, root, ppc, err>>
dumpVars == <<tree, dumped, redumped, dpc>>
accessVars == <<val, got>>
copyVars == <<cls, heap, original, copied, last, kpc>>
nullVars == <<tpc, made>>
tableVars == <<map_, mutex_, thr>>
utfVars == <<ucp, ustr, uindex, ures, calls>>
strVars == <<buffer_, size_, content, sbpc>>
vars == <<buildVars, codecVars, parserVars, dumpVars, accessVars, copyVars, nullVars, tableVars, utfVars, strVars>>

(***************************************************************************)
(* Bounds of the model.                                                    *)
(***************************************************************************)
MaxStrLen == 2      \* longest string payload that is packed
MaxTrail == 1       \* bytes a caller appends after a packed envelope
MaxTextLen == 3     \* longest text made of every combination of the parser's characters
MaxMembers == 3     \* most members written in an object text
MaxTrailLen == 2    \* most characters that follow a root value in a file
MaxNest == 4        \* deepest nesting of arrays or objects in a generated text
MaxElems == 2       \* longest string and longest array in a serialized tree
MaxNodes == 4       \* most JsonValue nodes allocated for a container and its copy
MaxThreads == 3     \* threads that call into the library at the same time
MaxContent == 4     \* most characters a StringBuffer is made to hold
MaxInitial == 7     \* largest initial_size a StringBuffer is constructed with

(***************************************************************************)
(* BinaryType: the six tag bytes.                                          *)
(***************************************************************************)
TagInteger == 105
TagReal == 100
TagBoolean == 98
TagString == 115
TagNull == 78
TagError == 69

Tags == {TagInteger, TagReal, TagBoolean, TagString, TagNull, TagError}

TagName(t) ==
    CASE t = TagInteger -> "Integer"
      [] t = TagReal -> "Real"
      [] t = TagBoolean -> "Boolean"
      [] t = TagString -> "String"
      [] t = TagNull -> "Null"
      [] t = TagError -> "Error"
      [] OTHER -> "Unknown"

(***************************************************************************)
(* Fixed-width integers as limbs.                                          *)
(***************************************************************************)
Reverse(s) == [i \in 1..Len(s) |-> s[Len(s) + 1 - i]]

\* The bytes of a limb sequence, most significant byte first.
ObjectBytes(limbs) ==
    [i \in 1..(2 * Len(limbs)) |->
        IF i % 2 = 1 THEN limbs[(i + 1) \div 2] \div 256 ELSE limbs[i \div 2] % 256]

\* The limb sequence of a most-significant-first byte sequence of even length.
LimbsOf(bytes) ==
    [i \in 1..(Len(bytes) \div 2) |-> bytes[2 * i - 1] * 256 + bytes[2 * i]]

\* static_cast<int>(n) / static_cast<uint32_t>(n) for an n that fits 32 bits.
Int32Limbs(n) == <<(n \div 65536) % 65536, n % 65536>>

\* static_cast<int64_t>(n) / size_t n, for an n in the signed 32-bit range.
Int64Limbs(n) ==
    LET ext == IF n < 0 THEN 65535 ELSE 0
    IN  <<ext, ext>> \o Int32Limbs(n)

\* (v >> sh) & 0xFF for a byte-aligned shift sh.
ShiftByte(limbs, sh) ==
    LET l == limbs[Len(limbs) - (sh \div 16)]
    IN  IF sh % 16 = 8 THEN l \div 256 ELSE l % 256

\* (v << 8) | b on a fixed number of limbs.
Shl8Or(limbs, b) ==
    [i \in 1..Len(limbs) |->
        (limbs[i] % 256) * 256
        + (IF i < Len(limbs) THEN limbs[i + 1] \div 256 ELSE b)]

\* v | (b << sh) for a byte-aligned shift sh whose target byte of v is still 0.
OrShifted(limbs, b, sh) ==
    [i \in 1..Len(limbs) |->
        IF i = Len(limbs) - (sh \div 16)
        THEN limbs[i] + (IF sh % 16 = 8 THEN b * 256 ELSE b)
        ELSE limbs[i]]

Zero(n) == [i \in 1..n |-> 0]

(***************************************************************************)
(* Outcomes of a call.                                                     *)
(***************************************************************************)
NoValue == [tag |-> "none", v |-> <<>>]

Return(value, p, reads) ==
    [status |-> "ok", exc |-> "none", what |-> "", value |-> value, pos |-> p,
     reads |-> reads]

\* a throw that leaves the cursor one byte further than the code does (the
\* cursor advanced before the test that fails)
Throw_advanced(exc, what, p, reads) ==
    [status |-> "throw", exc |-> exc, what |-> what, value |-> NoValue, pos |-> p + 1,
     reads |-> reads]

Throw(exc, what, p, reads) ==
    [status |-> "throw", exc |-> exc, what |-> what, value |-> NoValue, pos |-> p,
     reads |-> reads]

Abort(p, reads) ==
    [status |-> "abort", exc |-> "none", what |-> "", value |-> NoValue, pos |-> p,
     reads |-> reads]

\* A buffer returned by pack.
Packed(buf) == [exc |-> "none", what |-> "", buffer |-> buf]

(***************************************************************************)
(* pack_unpack.cpp                                                         *)
(***************************************************************************)
\* detail::append_to_buffer: the object representation of the value, in the
\* host's byte order, is appended.  obj is given most significant byte first.
append_to_buffer(buf, obj) ==
    buf \o (IF endian = "big" THEN obj ELSE Reverse(obj))

\* read_from_buffer that forgets pos += sizeof(T).
read_from_buffer_stale(buf, p, size) ==
    IF p + size > Len(buf)
    THEN [ok |-> FALSE, bytes |-> <<>>, pos |-> p, reads |-> {}]
    ELSE LET mem == SubSeq(buf, p + 1, p + size)
         IN  [ok |-> TRUE,
              bytes |-> IF endian = "big" THEN mem ELSE Reverse(mem),
              pos |-> p,
              reads |-> p..(p + size - 1)]

\* read_from_buffer whose bounds test is off by one (>= size + 1 accepted): the
\* byte past the end is read (whatever it holds, here 0).
read_from_buffer_offbyone(buf, p, size) ==
    IF p + size > Len(buf) + 1
    THEN [ok |-> FALSE, bytes |-> <<>>, pos |-> p, reads |-> {}]
    ELSE LET mem == [i \in 1..size |-> IF p + i <= Len(buf) THEN buf[p + i] ELSE 0]
         IN  [ok |-> TRUE,
              bytes |-> IF endian = "big" THEN mem ELSE Reverse(mem),
              pos |-> p + size,
              reads |-> p..(p + size - 1)]

\* detail::read_from_buffer<T> with sizeof(T) = size: bytes is the value read,
\* most significant byte first.
read_from_buffer(buf, p, size) ==
    IF p + size > Len(buf)
    THEN [ok |-> FALSE, bytes |-> <<>>, pos |-> p, reads |-> {}]
    ELSE LET mem == SubSeq(buf, p + 1, p + size)
         IN  [ok |-> TRUE,
              bytes |-> IF endian = "big" THEN mem ELSE Reverse(mem),
              pos |-> p + size,
              reads |-> p..(p + size - 1)]

\* PackUnpack::pack of pack_unpack.cpp.
pack(type, value) ==
    LET tagged == <<type>>
    IN  CASE type = TagInteger ->
                Packed(append_to_buffer(tagged, ObjectBytes(value)))
          [] type = TagReal ->
                Packed(append_to_buffer(tagged, ObjectBytes(value)))
          [] type = TagBoolean ->
                Packed(append_to_buffer(tagged, <<IF value THEN 1 ELSE 0>>))
          [] type = TagString ->
                Packed(append_to_buffer(tagged, ObjectBytes(Int32Limbs(Len(value))))
                       \o value)
          [] type = TagNull ->
                Packed(tagged)
          [] type = TagError ->
                Packed(append_to_buffer(tagged, ObjectBytes(Int32Limbs(value))))
          [] OTHER ->
                [exc |-> "invalid_argument", what |-> "Unsupported binary type",
                 buffer |-> <<>>]

\* A bool read by memcpy: only the bytes 0 and 1 are values of bool.
BoolOfByte(b) ==
    IF b \in {0, 1} THEN [tag |-> "Boolean", v |-> (b = 1)]
    ELSE [tag |-> "BooleanTrap", v |-> b]

\* The length test of the String case (size_t arithmetic, no wrap-around for
\* the buffers of this model, which are shorter than 65536 bytes).
Exceeds(p, length, size) == length[1] > 0 \/ p + length[2] > size

\* A default case that reports an unknown tag like a short buffer.
unpack_default_range(p, reads) ==
    Throw("out_of_range", "Buffer too small", p, reads)

\* The default case of unpack's switch.
unpack_default(p, reads) ==
    Throw("invalid_argument", "Unsupported binary type", p, reads)

\* PackUnpack::unpack of pack_unpack.cpp.
unpack(buf, p) ==
    IF p >= Len(buf) THEN Throw("out_of_range", "No more data in buffer", p, {})
    ELSE
    LET type == buf[p + 1]
        p1 == p + 1
        fixed(size, mk(_)) ==
            LET r == read_from_buffer(buf, p1, size)
            IN  IF r.ok THEN Return(mk(r.bytes), r.pos, {p} \cup r.reads)
                ELSE Throw("out_of_range", "Buffer too small", p1, {p})
        mkInt(bytes) == [tag |-> "Integer", v |-> LimbsOf(bytes)]
        mkReal(bytes) == [tag |-> "Real", v |-> LimbsOf(bytes)]
        mkBool(bytes) == BoolOfByte(bytes[1])
        mkErr(bytes) == [tag |-> "Error", v |-> LimbsOf(bytes)]
    IN  CASE type = TagInteger -> fixed(8, mkInt)
          [] type = TagReal -> fixed(8, mkReal)
          [] type = TagBoolean -> fixed(1, mkBool)
          [] type = TagString ->
                LET r == read_from_buffer(buf, p1, 4)
                    length == LimbsOf(r.bytes)
                IN  IF ~r.ok THEN Throw("out_of_range", "Buffer too small", p1, {p})
                    ELSE IF Exceeds(r.pos, length, Len(buf))
                    THEN Throw("out_of_range", "String length exceeds buffer size", r.pos,
                               {p} \cup r.reads)
                    \* &buffer[pos] with pos == buffer.size(): outside the vector
                    ELSE IF r.pos = Len(buf) /\ hardened
                    THEN Abort(r.pos, {p} \cup r.reads)
                    ELSE Return([tag |-> "String",
                                 v |-> SubSeq(buf, r.pos + 1, r.pos + length[2])],
                                r.pos + length[2],
                                {p} \cup r.reads \cup (r.pos..(r.pos + length[2] - 1)))
          [] type = TagNull -> Return([tag |-> "Null", v |-> <<>>], p1, {p})
          [] type = TagError -> fixed(4, mkErr)
          [] OTHER -> unpack_default(p1, {p})

(***************************************************************************)
(* The header implementation (examples/example.cpp).                       *)
(***************************************************************************)
\* The bytes (v >> hi) & 0xFF, ..., v & 0xFF, pushed in that order.
PushShifted(limbs, hi) ==
    [k \in 1..(hi \div 8 + 1) |-> ShiftByte(limbs, hi - 8 * (k - 1))]

\* PackUnpack::pack of the header.  A type outside the enumeration falls
\* through the switch and an empty buffer is returned.
pack_hdr(type, value) ==
    CASE type = TagInteger ->
            Packed(<<TagInteger>> \o PushShifted(value, 56))
      [] type = TagReal ->
            Packed(<<TagReal>> \o PushShifted(value, 56))
      [] type = TagBoolean ->
            Packed(<<TagBoolean, IF value THEN 1 ELSE 0>>)
      [] type = TagString ->
            [exc |-> "none",
             buffer |-> <<TagString>> \o PushShifted(Int64Limbs(Len(value)), 24) \o value]
      [] type = TagNull ->
            Packed(<<TagNull>>)
      [] type = TagError ->
            Packed(<<TagError>>)
      [] OTHER ->
            Packed(<<>>)

\* for (i = 0; i < n; ++i) result = (result << 8) | buffer[pos + i];
RECURSIVE ShiftIn(_, _, _, _)
ShiftIn(acc, buf, p, n) ==
    IF n = 0 THEN acc ELSE ShiftIn(Shl8Or(acc, buf[p + 1]), buf, p + 1, n - 1)

\* for (i = 0; i < 8; ++i) bits |= uint64_t(buffer[pos + i]) << (56 - i * 8);
RECURSIVE OrIn(_, _, _, _)
OrIn(acc, buf, p, i) ==
    IF i = 8 THEN acc ELSE OrIn(OrShifted(acc, buf[p + i + 1], 56 - i * 8), buf, p, i + 1)

\* PackUnpack::unpack of the header.
unpack_hdr(buf, p) ==
    IF p >= Len(buf) THEN Throw("out_of_range", "Buffer overflow", p, {})
    ELSE
    LET type == buf[p + 1]
        p1 == p + 1
    IN  CASE type = TagInteger ->
                IF p1 + 8 > Len(buf) THEN Throw("out_of_range", "Buffer overflow", p1, {p})
                ELSE Return([tag |-> "Integer", v |-> ShiftIn(Zero(4), buf, p1, 8)],
                            p1 + 8, p..(p1 + 7))
          [] type = TagReal ->
                IF p1 + 8 > Len(buf) THEN Throw("out_of_range", "Buffer overflow", p1, {p})
                ELSE Return([tag |-> "Real", v |-> OrIn(Zero(4), buf, p1, 0)],
                            p1 + 8, p..(p1 + 7))
          [] type = TagBoolean ->
                IF p1 >= Len(buf) THEN Throw("out_of_range", "Buffer overflow", p1, {p})
                ELSE Return([tag |-> "Boolean", v |-> (buf[p1 + 1] # 0)], p1 + 1, {p, p1})
          [] type = TagString ->
                IF p1 + 4 > Len(buf) THEN Throw("out_of_range", "Buffer overflow", p1, {p})
                ELSE LET length == ShiftIn(Zero(2), buf, p1, 4)
                         p5 == p1 + 4
                     IN  IF Exceeds(p5, length, Len(buf))
                         THEN Throw("out_of_range", "Buffer overflow", p5, p..(p5 - 1))
                         ELSE Return([tag |-> "String",
                                      v |-> SubSeq(buf, p5 + 1, p5 + length[2])],
                                     p5 + length[2], p..(p5 + length[2] - 1))
          [] type = TagNull -> Return([tag |-> "Null", v |-> <<>>], p1, {p})
          [] type = TagError -> Throw("runtime_error", "JSON error", p1, {p})
          [] OTHER -> Throw("runtime_error", "Unknown binary type", p1, {p})

(***************************************************************************)
(* The values the callers of the codec pack.                               *)
(***************************************************************************)
\* int64_t: 0, 123, -1, 0x0102030405060708, INT64_MIN, INT64_MAX
IntSamples ==
    { <<0, 0, 0, 0>>, <<0, 0, 0, 123>>, <<65535, 65535, 65535, 65535>>,
      <<258, 772, 1286, 1800>>, <<32768, 0, 0, 0>>, <<32767, 65535, 65535, 65535>> }

\* double, by bit pattern: 0.0, 1.0, -2.0, pi
RealSamples ==
    { <<0, 0, 0, 0>>, <<16368, 0, 0, 0>>, <<49152, 0, 0, 0>>,
      <<16393, 8699, 21572, 11544>> }

\* int error codes: 0, 1, -1, 258, INT_MAX, INT_MIN
ErrorSamples == {0, 1, -1, 258, 2147483647, (-2147483647) - 1}

StrBytes == {0, 97, 200}

SeqsUpTo(S, n) == UNION {[1..k -> S] : k \in 0..n}

PackInputs ==
    ({TagInteger} \X IntSamples)
    \cup ({TagReal} \X RealSamples)
    \cup ({TagBoolean} \X BOOLEAN)
    \cup ({TagString} \X SeqsUpTo(StrBytes, MaxStrLen))
    \cup ({TagNull} \X {<<>>})
    \cup ({TagError} \X ErrorSamples)

\* The value unpack returns for a packed (type, value) when nothing is lost.
ValueOf(type, value) ==
    [tag |-> TagName(type),
     v |-> IF type = TagError THEN Int32Limbs(value) ELSE value]

\* Bytes a caller or a channel may put in a buffer: the tags, an unknown
\* lower-case and upper-case letter, 0 and 255.
ByteSamples == Tags \cup {0, 1, 73, 120, 255}

\* Bytes that follow an envelope in a longer buffer.
TrailBytes == {0, TagNull, 255}

Pack_(type, value) == IF impl = "cpp" THEN pack(type, value) ELSE pack_hdr(type, value)
Unpack_(buf, p) == IF impl = "cpp" THEN unpack(buf, p) ELSE unpack_hdr(buf, p)

(***************************************************************************)
(* The codec as a state machine: a caller packs a value, the buffer may be *)
(* cut, extended or altered on its way, and a caller unpacks from it.      *)
(***************************************************************************)
NoPack == [type |-> 0, value |-> <<>>]
NoResult ==
    [status |-> "none", exc |-> "none", what |-> "", value |-> NoValue, pos |-> 0,
     reads |-> {}]

\* no JsonValue
NoRet == [type |-> "none", alt |-> "none", v |-> <<>>]

\* Parser::parse has not been called
ParserIdle ==
    /\ fileText = <<>>
    /\ view = <<>>
    /\ stack = <<>>
    /\ ret = NoRet
    /\ root = NoRet
    /\ ppc = "start"
    /\ err = ""

\* no container has been built
CopyIdle ==
    /\ cls = "none"
    /\ heap = <<>>
    /\ original = <<>>
    /\ copied = <<>>
    /\ last = "none"
    /\ kpc = "off"

\* no thread has called Value::NullValue()
NullIdle ==
    /\ tpc = <<>>
    /\ made = FALSE

\* no HashTable has been built
TableIdle ==
    /\ map_ = <<>>
    /\ mutex_ = [owner |-> 0, sharers |-> {}]
    /\ thr = <<>>

\* no function of Utf8 has been called
UtfIdle ==
    /\ ucp = 0
    /\ ustr = <<>>
    /\ uindex = 0
    /\ ures = <<>>
    /\ calls = <<>>

\* no StringBuffer has been constructed
StrIdle ==
    /\ buffer_ = [size |-> 0, data |-> <<>>]
    /\ size_ = 0
    /\ content = <<>>
    /\ sbpc = "off"

\* no accessor of a jasson::Value has been called
AccessIdle ==
    /\ val = <<>>
    /\ got = [fn |-> "", status |-> "none", what |-> "", value |-> <<>>]

\* JsonDumper::dump has not been called
DumpIdle ==
    /\ tree = NoRet
    /\ dumped = <<>>
    /\ redumped = <<>>
    /\ dpc = "off"

\* nothing has been packed
CodecIdle ==
    /\ buffer = <<>>
    /\ pos = 0
    /\ pos0 = 0
    /\ packedBuf = <<>>
    /\ packed = NoPack
    /\ result = NoResult
    /\ cpc = "idle"

CodecInit ==
    /\ impl \in {"cpp", "hdr"}
    /\ endian \in {"little", "big"}
    /\ hardened \in BOOLEAN
    /\ StrIdle
    /\ UtfIdle
    /\ TableIdle
    /\ NullIdle
    /\ CopyIdle
    /\ CodecIdle
    /\ ParserIdle
    /\ DumpIdle
    /\ AccessIdle

\* buffer = PackUnpack::pack(type, value); pos = 0
Pack(type, value) ==
    /\ cpc = "idle"
    /\ LET r == Pack_(type, value)
       IN  /\ r.exc = "none"
           /\ buffer' = r.buffer
           /\ packedBuf' = r.buffer
    /\ packed' = [type |-> type, value |-> value]
    /\ pos' = 0
    /\ pos0' = 0
    /\ result' = NoResult
    /\ cpc' = "loaded"
    /\ UNCHANGED <<buildVars, strVars, utfVars, tableVars, nullVars, copyVars, parserVars, dumpVars, accessVars>>

\* pack with a type outside the enumeration
PackUnknown(type) ==
    /\ cpc = "idle"
    /\ LET r == Pack_(type, <<>>)
       IN  /\ result' = [NoResult EXCEPT !.status = IF r.exc = "none" THEN "ok" ELSE "throw",
                                         !.exc = r.exc]
           /\ buffer' = r.buffer
           /\ packedBuf' = r.buffer
    /\ packed' = [type |-> type, value |-> <<>>]
    /\ cpc' = "packfail"
    /\ UNCHANGED <<buildVars, strVars, utfVars, tableVars, nullVars, copyVars, parserVars, dumpVars, accessVars, pos, pos0>>

\* the buffer arrives cut short
Truncate(n) ==
    /\ cpc = "loaded"
    /\ buffer = packedBuf
    /\ n < Len(buffer)
    /\ buffer' = SubSeq(buffer, 1, n)
    /\ UNCHANGED <<buildVars, strVars, utfVars, tableVars, nullVars, copyVars, parserVars, dumpVars, accessVars, pos, pos0, packedBuf, packed, result, cpc>>

\* more bytes follow the envelope
AppendByte(b) ==
    /\ cpc = "loaded"
    /\ Len(buffer) >= Len(packedBuf)
    /\ Len(buffer) < Len(packedBuf) + MaxTrail
    /\ buffer' = Append(buffer, b)
    /\ UNCHANGED <<buildVars, strVars, utfVars, tableVars, nullVars, copyVars, parserVars, dumpVars, accessVars, pos, pos0, packedBuf, packed, result, cpc>>

\* the tag byte is replaced
SetTag(b) ==
    /\ cpc = "loaded"
    /\ buffer = packedBuf
    /\ Len(buffer) > 0
    /\ b # buffer[1]
    /\ buffer' = [buffer EXCEPT ![1] = b]
    /\ UNCHANGED <<buildVars, strVars, utfVars, tableVars, nullVars, copyVars, parserVars, dumpVars, accessVars, pos, pos0, packedBuf, packed, result, cpc>>

\* value = PackUnpack::unpack(buffer, pos)
Unpack ==
    /\ cpc \in {"loaded", "called"}
    /\ LET r == Unpack_(buffer, pos)
       IN  /\ result' = r
           /\ pos' = r.pos
           /\ cpc' = IF r.status = "abort" THEN "aborted" ELSE "called"
    /\ pos0' = pos
    /\ UNCHANGED <<buildVars, strVars, utfVars, tableVars, nullVars, copyVars, parserVars, dumpVars, accessVars, buffer, packedBuf, packed>>

CodecNext ==
    \/ \E in \in PackInputs : Pack(in[1], in[2])
    \/ \E t \in ByteSamples \ Tags : PackUnknown(t)
    \/ \E n \in 0..9 : Truncate(n)
    \/ \E b \in TrailBytes : AppendByte(b)
    \/ \E b \in ByteSamples : SetTag(b)
    \/ Unpack

CodecSpec == CodecInit /\ [][CodecNext]_vars

(***************************************************************************)
(* The parser (parser.cpp).  Text is a sequence of one-character strings;  *)
(* a std::string_view over the file content is the sequence of characters  *)
(* that remain.                                                            *)
(***************************************************************************)
Digit == {"0", "1", "2", "3", "4", "5", "6", "7", "8", "9"}

DigitVal(c) ==
    CASE c = "0" -> 0 [] c = "1" -> 1 [] c = "2" -> 2 [] c = "3" -> 3 [] c = "4" -> 4
      [] c = "5" -> 5 [] c = "6" -> 6 [] c = "7" -> 7 [] c = "8" -> 8 [] c = "9" -> 9

DigitChar(n) == CHOOSE c \in Digit : DigitVal(c) = n

\* std::isspace in the "C" locale (the vertical tab cannot be written here)
Space == {" ", "\t", "\n", "\r", "\f"}

isdigit(c) == c \in Digit

\* The character std::string keeps after its last one; front() of an empty
\* view over the content reads it when the library does not check.
NUL == "\\x00"

\* s without its first n characters
Drop(s, n) == SubSeq(s, n + 1, Len(s))

\* the length of the longest prefix of s, from index i on, made of characters of S
RECURSIVE SpanLen(_, _, _)
SpanLen(s, i, S) ==
    IF i <= Len(s) /\ s[i] \in S THEN SpanLen(s, i + 1, S) ELSE i - 1

\* Parser::skipWhitespace: view.remove_prefix(distance to the first non-space)
skipWhitespace(vw) == Drop(vw, SpanLen(vw, 1, Space))

(***************************************************************************)
(* Decimal arithmetic on digit sequences (most significant digit first),   *)
(* used for what std::stod, static_cast<int64_t> and std::to_string do to  *)
(* an integer literal.                                                     *)
(***************************************************************************)
\* digits without leading zeros; zero is <<0>>
\* the one element of a set of one: S is {e} or {f(x) : x \in {e}}, which
\* names the value of e as x inside f
Only(S) == CHOOSE x \in S : TRUE

RECURSIVE Canon(_)
Canon(d) ==
    IF Len(d) > 1 /\ d[1] = 0 THEN Canon(Tail(d))
    ELSE IF d = <<>> THEN <<0>> ELSE d

\* a < b for canonical a and b
Less(a, b) ==
    \/ Len(a) < Len(b)
    \/ /\ Len(a) = Len(b)
       /\ \E i \in 1..Len(a) : a[i] < b[i] /\ \A j \in 1..(i - 1) : a[j] = b[j]

\* floor(d / 2)
Half(d) ==
    Canon([i \in 1..Len(d) |->
              ((IF i > 1 /\ d[i - 1] % 2 = 1 THEN 10 ELSE 0) + d[i]) \div 2])

\* 2 * d
Twice(d) ==
    Canon((IF d[1] >= 5 THEN <<1>> ELSE <<>>)
          \o [i \in 1..Len(d) |->
                 (2 * d[i] + (IF i < Len(d) /\ d[i + 1] >= 5 THEN 1 ELSE 0)) % 10])

\* d + 1
RECURSIVE Inc(_)
Inc(d) ==
    IF d = <<>> THEN <<1>>
    ELSE IF d[Len(d)] < 9 THEN [d EXCEPT ![Len(d)] = @ + 1]
    ELSE Append(Inc(SubSeq(d, 1, Len(d) - 1)), 0)

Odd(d) == d[Len(d)] % 2 = 1

\* 2^53: a double has DBL_MANT_DIG = 53 significant bits
Pow2_53 == <<9, 0, 0, 7, 1, 9, 9, 2, 5, 4, 7, 4, 0, 9, 9, 2>>

\* 2^63: int64_t holds -2^63 .. 2^63 - 1
Pow2_63 == <<9, 2, 2, 3, 3, 7, 2, 0, 3, 6, 8, 5, 4, 7, 7, 5, 8, 0, 8>>

\* INT64_MAX = 2^63 - 1
Int64Max == <<9, 2, 2, 3, 3, 7, 2, 0, 3, 6, 8, 5, 4, 7, 7, 5, 8, 0, 7>>

\* Shift d right until it has at most 53 bits, keeping the guard bit (the last
\* bit shifted out) and the sticky bit (the or of the earlier ones).
RECURSIVE ShiftTo53(_, _, _, _)
ShiftTo53(d, k, guard, sticky) ==
    IF Less(d, Pow2_53) THEN [q |-> d, k |-> k, guard |-> guard, sticky |-> sticky]
    ELSE Only({ShiftTo53(h, k + 1, Odd(d), b) : h \in {Half(d)}, b \in {sticky \/ guard}})

RECURSIVE ShiftLeft(_, _)
ShiftLeft(d, k) == IF k = 0 THEN d ELSE Only({ShiftLeft(t, k - 1) : t \in {Twice(d)}})

\* The magnitude of the double nearest to the integer d (round to nearest,
\* ties to even), as std::stod computes it for a digit string.
NearestDouble(d) ==
    Only({LET up == s.guard /\ (s.sticky \/ Odd(s.q))
          IN  Only({ShiftLeft(q, s.k) : q \in {IF up THEN Inc(s.q) ELSE s.q}})
          : s \in {ShiftTo53(c, 0, FALSE, FALSE) : c \in {Canon(d)}}})

DigitsOf(text) == [i \in 1..Len(text) |-> DigitVal(text[i])]
TextOf(d) == [i \in 1..Len(d) |-> DigitChar(d[i])]

\* std::to_string of the int64_t with the given sign and magnitude
to_string(neg, d) ==
    (IF neg /\ Canon(d) # <<0>> THEN <<"-">> ELSE <<>>) \o TextOf(Canon(d))

(***************************************************************************)
(* Characters as bytes, for the \uXXXX escape of parseString.              *)
(***************************************************************************)
\* the printable ASCII characters, from ' ' (32) to '~' (126); the grave accent
\* (96) goes by its byte name
Ascii ==
    <<" ", "!", "\"", "#", "$", "%", "&", "'", "(", ")", "*", "+", ",", "-", ".", "/",
      "0", "1", "2", "3", "4", "5", "6", "7", "8", "9", ":", ";", "<", "=", ">", "?",
      "@", "A", "B", "C", "D", "E", "F", "G", "H", "I", "J", "K", "L", "M", "N", "O",
      "P", "Q", "R", "S", "T", "U", "V", "W", "X", "Y", "Z", "[", "\\", "]", "^", "_",
      "\\x60", "a", "b", "c", "d", "e", "f", "g", "h", "i", "j", "k", "l", "m", "n", "o",
      "p", "q", "r", "s", "t", "u", "v", "w", "x", "y", "z", "{", "|", "}", "~">>

HexDigits == <<"0", "1", "2", "3", "4", "5", "6", "7", "8", "9", "A", "B", "C", "D", "E", "F">>

\* the name of a byte that has no character of its own here
HexToken(n) == "\\x" \o HexDigits[(n \div 16) + 1] \o HexDigits[(n % 16) + 1]

\* static_cast<char>(n), 0 <= n <= 255
Chr(n) ==
    CASE n = 9 -> "\t"
      [] n = 10 -> "\n"
      [] n = 12 -> "\f"
      [] n = 13 -> "\r"
      [] n >= 32 /\ n <= 126 -> Ascii[n - 31]
      [] OTHER -> HexToken(n)

\* the byte of a character
Ord(c) == CHOOSE n \in 0..255 : Chr(n) = c

isalpha(c) == (Ord(c) >= 65 /\ Ord(c) <= 90) \/ (Ord(c) >= 97 /\ Ord(c) <= 122)

tolower(n) == IF n >= 65 /\ n <= 90 THEN n + 32 ELSE n

(***************************************************************************)
(* JsonValue: type_ and the active alternative of data_.                   *)
(***************************************************************************)
JsonNull == [type |-> "Null", alt |-> "monostate", v |-> <<>>]
JsonBool(b) == [type |-> "Boolean", alt |-> "bool", v |-> b]
\* An int64_t, kept as its decimal text.
JsonInt(text) == [type |-> "Number", alt |-> "int64_t", v |-> text]
\* A double, kept as the decimal text of its value when that is an integer
\* and else as the literal std::stod converted.
JsonDouble(text) == [type |-> "Number", alt |-> "double", v |-> text]
JsonString(str) == [type |-> "String", alt |-> "string", v |-> str]
\* A JsonObject: its Map, a function from keys to values.
JsonObjectValue(map) == [type |-> "Object", alt |-> "JsonObject", v |-> map]
\* A JsonArray: its Vec.
JsonArrayValue(vec) == [type |-> "Array", alt |-> "JsonArray", v |-> vec]

EmptyMap == [k \in {} |-> JsonNull]

\* A map that keeps the first value written under a key.
MapAssign_keepfirst(map, key, value) ==
    [k \in DOMAIN map \cup {key} |-> IF k \in DOMAIN map THEN map[k] ELSE value]

\* obj->keys()[key] = value on the std::unordered_map
MapAssign(map, key, value) ==
    [k \in DOMAIN map \cup {key} |-> IF k = key THEN value ELSE map[k]]

(***************************************************************************)
(* parseLiteral and parseNumber, each one step.                            *)
(***************************************************************************)
Parsed(value, vw) == [status |-> "ok", what |-> "", value |-> value, view |-> vw]
Failed(what, vw) == [status |-> "throw", what |-> what, value |-> JsonNull, view |-> vw]

\* view.substr(0, n) == text (substr stops at the end of the view)
StartsWith(vw, text) == Len(vw) >= Len(text) /\ SubSeq(vw, 1, Len(text)) = text

parseLiteral(view0) ==
    LET vw == skipWhitespace(view0)
    IN  IF StartsWith(vw, <<"t", "r", "u", "e">>) THEN Parsed(JsonBool(TRUE), Drop(vw, 4))
        ELSE IF StartsWith(vw, <<"f", "a", "l", "s", "e">>)
        THEN Parsed(JsonBool(FALSE), Drop(vw, 5))
        ELSE IF StartsWith(vw, <<"n", "u", "l", "l">>) THEN Parsed(JsonNull, Drop(vw, 4))
        ELSE Failed("Invalid literal in JSON input", vw)

\* The length of the numeric literal parseNumber captures at the front of view.
NumStrLen(vw) ==
    LET at(i) == IF i <= Len(vw) THEN vw[i] ELSE NUL
        n0 == IF at(1) = "-" THEN 1 ELSE 0
        n1 == SpanLen(vw, n0 + 1, Digit)
        n2 == IF at(n1 + 1) = "." THEN SpanLen(vw, n1 + 2, Digit) ELSE n1
        n3 == IF at(n2 + 1) \in {"e", "E"}
              THEN SpanLen(vw, (IF at(n2 + 2) \in {"+", "-"} THEN n2 + 3 ELSE n2 + 2), Digit)
              ELSE n2
    IN  n3

\* The prefix of numStr std::stod converts; <<>> when it converts nothing
\* (std::invalid_argument).  std::stod also throws std::out_of_range for a
\* value outside the range of double; the exponents of the literals here have
\* one digit, far from it.
StodPrefix(numStr) ==
    LET at(i) == IF i <= Len(numStr) THEN numStr[i] ELSE NUL
        n0 == IF at(1) = "-" THEN 1 ELSE 0
        n1 == SpanLen(numStr, n0 + 1, Digit)
        n2 == IF at(n1 + 1) = "." THEN SpanLen(numStr, n1 + 2, Digit) ELSE n1
        \* digits before the point, or digits after it
        mantissa == n1 > n0 \/ n2 > n1 + 1
        e0 == IF at(n2 + 2) \in {"+", "-"} THEN n2 + 2 ELSE n2 + 1
        e1 == SpanLen(numStr, e0 + 1, Digit)
        n3 == IF at(n2 + 1) \in {"e", "E"} /\ e1 > e0 THEN e1 ELSE n2
    IN  IF mantissa THEN SubSeq(numStr, 1, n3) ELSE <<>>

\* static_cast<int64_t>(value) for the double of the given sign and integer
\* magnitude: [neg, mag] of the result.  A value outside the range of int64_t
\* is undefined behaviour; cast names what the build does with it: the
\* "indefinite" integer (x86 cvttsd2si) or saturation ("saturate").
CastToInt64(neg, mag, cast) ==
    IF Less(mag, Pow2_63) \/ (neg /\ mag = Pow2_63) THEN [neg |-> neg, mag |-> mag]
    ELSE IF cast = "indefinite" \/ neg THEN [neg |-> TRUE, mag |-> Pow2_63]
    ELSE [neg |-> FALSE, mag |-> Int64Max]

\* parseNumber with the view after skipWhitespace, the length of the
\* literal and the literal
NumberOf(vw, n, numStr, cast) ==
    LET rest == Drop(vw, n)
        integral == \A i \in 1..n : numStr[i] \notin {".", "e", "E"}
        neg == n > 0 /\ numStr[1] = "-"
    IN  Only({IF conv = <<>> THEN Failed("Failed to parse JSON number", rest)
              ELSE IF ~integral THEN Parsed(JsonDouble(conv), rest)
              ELSE Only({LET intVal == CastToInt64(neg, mag, cast)
                         IN  IF to_string(intVal.neg, intVal.mag) = numStr
                             THEN Parsed(JsonInt(numStr), rest)
                             ELSE Parsed(JsonDouble((IF neg THEN <<"-">> ELSE <<>>)
                                                    \o TextOf(mag)), rest)
                         : mag \in {NearestDouble(DigitsOf(SubSeq(numStr,
                                                                  (IF neg THEN 2 ELSE 1), n)))}})
              : conv \in {StodPrefix(numStr)}})

parseNumber(view0, cast) ==
    Only({Only({Only({NumberOf(vw, n, numStr, cast) : numStr \in {SubSeq(vw, 1, n)}})
                : n \in {NumStrLen(vw)}})
          : vw \in {skipWhitespace(view0)}})

(***************************************************************************)
(* parseString: the character loop, one character or escape at a time.     *)
(***************************************************************************)
\* (value >> sh) & mask
Bits(value, sh, mask) == (value \div (2 ^ sh)) % (mask + 1)

\* the value one character of the four after \u adds (lines 146-150)
HexValue(ch) ==
    IF isdigit(ch) THEN DigitVal(ch)
    ELSE IF isalpha(ch) THEN (tolower(Ord(ch)) - 97) + 10
    ELSE 0

\* int value = 0; for (char ch : hex) { value <<= 4; value += ... }
RECURSIVE HexToInt(_, _)
HexToInt(hex, value) ==
    IF hex = <<>> THEN value
    ELSE HexToInt(Tail(hex), (value * 16) + HexValue(hex[1]))

\* the UTF-8 bytes appended for value (lines 153-167)
EncodeUtf8(value) ==
    IF value <= 127 THEN <<Chr(value)>>
    ELSE IF value <= 2047
    THEN <<Chr(192 + Bits(value, 6, 31)), Chr(128 + Bits(value, 0, 63))>>
    ELSE IF value <= 65535
    THEN <<Chr(224 + Bits(value, 12, 15)), Chr(128 + Bits(value, 6, 63)),
           Chr(128 + Bits(value, 0, 63))>>
    ELSE <<Chr(240 + Bits(value, 18, 7)), Chr(128 + Bits(value, 12, 63)),
           Chr(128 + Bits(value, 6, 63)), Chr(128 + Bits(value, 0, 63))>>

\* what one turn of the loop appends to result, and the view it leaves
Appended(out, vw) == [status |-> "ok", what |-> "", out |-> out, view |-> vw]
Refused(what, vw) == [status |-> "throw", what |-> what, out |-> <<>>, view |-> vw]

\* The switch on the character after a backslash; view starts at that character.
Escape(vw) ==
    LET esc == vw[1]
        rest == Tail(vw)
    IN  CASE esc = "\"" -> Appended(<<"\"">>, rest)
          [] esc = "\\" -> Appended(<<"\\">>, rest)
          [] esc = "/" -> Appended(<<"/">>, rest)
          [] esc = "b" -> Appended(<<Chr(8)>>, rest)
          [] esc = "f" -> Appended(<<"\f">>, rest)
          [] esc = "n" -> Appended(<<"\n">>, rest)
          [] esc = "r" -> Appended(<<"\r">>, rest)
          [] esc = "t" -> Appended(<<"\t">>, rest)
          [] esc = "u" ->
                IF Len(rest) < 4 THEN Refused("Invalid Unicode escape", rest)
                ELSE Appended(EncodeUtf8(HexToInt(SubSeq(rest, 1, 4), 0)), Drop(rest, 4))
          [] OTHER -> Refused("Invalid escape sequence", rest)

\* One turn of while (!view.empty() && view.front() != '"') (lines 118-175).
StringTurn(vw) ==
    LET c == vw[1]
        rest == Tail(vw)
    IN  IF c # "\\" THEN Appended(<<c>>, rest)
        ELSE IF rest = <<>> THEN Refused("Unexpected end of string", rest)
        ELSE Escape(rest)

(***************************************************************************)
(* The input files.                                                        *)
(***************************************************************************)
\* readFile: every line std::getline finds, each followed by '\n'
readFile(text) ==
    IF text = <<>> \/ text[Len(text)] = "\n" THEN text ELSE Append(text, "\n")

Quoted(s) == <<"\"">> \o s \o <<"\"">>

\* every text of at most MaxTextLen of the characters the parsing functions test
ShortTexts ==
    SeqsUpTo({"{", "}", "[", "]", "\"", ":", ",", "1", " ", "a", "-", "\\"}, MaxTextLen)

\* objects written member by member, keys possibly repeated
MemberLists == SeqsUpTo({<<"a">>, <<"b">>} \X {<<"1">>, <<"2">>}, MaxMembers)

RECURSIVE MembersText(_)
MembersText(m) ==
    IF m = <<>> THEN <<>>
    ELSE Quoted(m[1][1]) \o <<":">> \o m[1][2]
         \o (IF Len(m) > 1 THEN <<",">> ELSE <<>>) \o MembersText(Tail(m))

ObjectText(m) == <<"{">> \o MembersText(m) \o <<"}">>

ObjectTexts == {ObjectText(m) : m \in MemberLists}

\* numeric literals around 2^53 and 2^63, with and without fraction and exponent
NumberTexts ==
    {sign \o stem \o <<d>> \o suffix :
        sign \in {<<>>, <<"-">>},
        stem \in
            {<<>>, <<"4">>,
             <<"9", "0", "0", "7", "1", "9", "9", "2", "5", "4", "7", "4", "0", "9", "9">>,
             <<"9", "2", "2", "3", "3", "7", "2", "0", "3", "6", "8", "5", "4", "7", "7", "5",
               "8", "0">>},
        d \in {"0", "1", "2", "3", "7", "8", "9"},
        suffix \in {<<>>, <<".", "0">>, <<"e", "1">>, <<"E", "1">>,
                    <<".", "5", "e", "-", "1">>}}

\* a root value and what follows it in the file
TrailTexts ==
    {r \o t :
        r \in {<<"1">>, <<"n", "u", "l", "l">>, Quoted(<<"a">>), <<"[", "]">>, <<"{", "}">>},
        t \in SeqsUpTo({" ", "\t", "\n", "\r", "\f", "2", "x"}, MaxTrailLen)}

Examples ==
    {<<"{", "[", "i", "n", "v", "a", "l", "i", "d", "]">>,
     <<"4", ".", "2", "e", "1">>,
     <<"[", "1", ",", "[", "t", "r", "u", "e", ",", "f", "a", "l", "s", "e", "]", "]">>,
     <<"\"", "\\", "u", "0", "0", "e", "9", "\\", "n", "\"">>,
     <<"{", "\"", "a", "\"", ":", "[", "1">>}

\* every text of at most MaxTextLen of the characters a number token is made of
NumberTokens == SeqsUpTo({"-", "1", ".", "e", "+"}, MaxTextLen)

\* string literals of one \uXXXX escape in the surrogate range, alone or
\* followed by a second escape
SurrogateTexts ==
    LET high == {<<"D", "8", "0", "0">>, <<"d", "8", "3", "D">>, <<"D", "B", "F", "F">>}
        low == {<<"D", "C", "0", "0">>, <<"D", "E", "0", "0">>, <<"d", "f", "f", "f">>}
        u(x) == <<"\\", "u">> \o x
    IN  {Quoted(u(a) \o b) :
            a \in high \cup low,
            b \in {<<>>} \cup {u(x) : x \in low \cup high \cup {<<"0", "0", "4", "1">>}}}

\* string literals of one backslash escape, at the root and as an array element
EscapeTexts ==
    LET simple == {<<c>> : c \in {"\"", "\\", "/", "b", "f", "n", "r", "t", "a", "x", "0", "U"}}
        hex == {"0", "4", "e", "A", "g", "Z", "-"}
        four == {<<"u", "0", "0", x, y>> : x \in hex, y \in hex}
        short == {<<"u">>, <<"u", "1">>, <<"u", "1", "2">>, <<"u", "1", "2", "3">>}
        literals == {Quoted(<<"\\">> \o b) : b \in simple \cup four \cup short}
    IN  literals \cup {<<"[">> \o l \o <<"]">> : l \in literals}

\* texts that end inside a string literal, inside an object or an array, or
\* after a leading '-'
PrematureTexts ==
    {<<"\"", "a">>, <<"-">>, <<"{">>, <<"[">>, <<"[", "1">>, <<"[", "1", ",">>,
     <<"{", "\"", "a", "\"">>, <<"{", "\"", "a", "\"", ":">>,
     <<"{", "\"", "a", "\"", ":", "1">>, <<"{", "\"", "a", "\"", ":", "1", ",">>,
     <<"{", "\"", "a", "\"", ":", "\"", "b">>, <<"[", "[", "]">>}

\* the value 1 inside n arrays (kind "[") or n objects (kind "{")
RECURSIVE NestedText(_, _)
NestedText(n, kind) ==
    IF n = 0 THEN <<"1">>
    ELSE IF kind = "[" THEN <<"[">> \o NestedText(n - 1, kind) \o <<"]">>
    ELSE <<"{", "\"", "a", "\"", ":">> \o NestedText(n - 1, kind) \o <<"}">>

NestedTexts == {NestedText(n, kind) : n \in 0..MaxNest, kind \in {"[", "{"}}

ParserInputs ==
    ShortTexts \cup ObjectTexts \cup NumberTexts \cup TrailTexts \cup Examples
    \cup NumberTokens \cup SurrogateTexts \cup EscapeTexts \cup PrematureTexts
    \cup NestedTexts

(***************************************************************************)
(* Parser::parse as a state machine.  A call of a parsing function is a    *)
(* frame on stack; pc names the line it will run next.                     *)
(***************************************************************************)
Frame(fn, pc) ==
    [fn |-> fn, pc |-> pc, obj |-> EmptyMap, arr |-> <<>>, key |-> <<>>, str |-> <<>>]

top == stack[Len(stack)]
Pop == SubSeq(stack, 1, Len(stack) - 1)
SetTop(f) == [stack EXCEPT ![Len(stack)] = f]
Call(f, callee) == Append(SetTop(f), callee)

\* the innermost call is fn, about to run pc
In(fn, pc) == ppc = "run" /\ stack # <<>> /\ top.fn = fn /\ top.pc = pc

\* view.front(): on an empty view an unchecked library reads the NUL that
\* std::string keeps after the content
Front(v) == IF v = <<>> THEN NUL ELSE v[1]

\* what an unchecked view.remove_prefix(1) leaves of an empty view: data_ one
\* past the terminator and size_ wrapped to SIZE_MAX, so characters that are
\* not of the content, whatever the memory holds
Beyond == <<"(outside the content)">>

\* throw std::runtime_error(what): every frame is unwound
Raise(what) ==
    /\ ppc' = "error"
    /\ err' = what
    /\ stack' = <<>>
    /\ ret' = NoRet
    /\ root' = NoRet

\* the library's assertion fails: std::abort, nothing is unwound
AssertFail ==
    /\ ppc' = "abort"
    /\ UNCHANGED <<err, stack, ret, root>>

\* the what() of every std::runtime_error the parsing functions throw
Messages ==
    {"Unexpected end of input", "Unexpected character", "Invalid literal in JSON input",
     "Failed to parse JSON number", "Expected string literal", "Unexpected end of string",
     "Invalid Unicode escape", "Invalid escape sequence", "Expected object start",
     "Expected string key", "Expected ':' after key", "Expected ',' or '}'",
     "Expected array start", "Expected ',' or ']'", "Extra data after valid JSON value"}

ParserInit ==
    /\ impl = "cpp"
    /\ endian = "little"
    /\ hardened \in BOOLEAN
    /\ StrIdle
    /\ UtfIdle
    /\ TableIdle
    /\ NullIdle
    /\ CopyIdle
    /\ CodecIdle
    /\ DumpIdle
    /\ AccessIdle
    /\ fileText \in ParserInputs
    /\ view = <<>>
    /\ stack = <<>>
    /\ ret = NoRet
    /\ root = NoRet
    /\ ppc = "start"
    /\ err = ""

\* Parser::parse, lines 290-294: the file is read and parseValue is called
ParseOpen ==
    /\ ppc = "start"
    /\ view' = readFile(fileText)
    /\ stack' = <<Frame("parseValue", "entry")>>
    /\ ppc' = "run"
    /\ UNCHANGED <<buildVars, strVars, utfVars, tableVars, nullVars, copyVars, codecVars, dumpVars, accessVars, fileText, ret, root, err>>

\* readFile, lines 15-17: the file cannot be opened
ParseOpenFail ==
    /\ ppc = "start"
    /\ Raise("Failed to open file")
    /\ UNCHANGED <<buildVars, strVars, utfVars, tableVars, nullVars, copyVars, codecVars, dumpVars, accessVars, fileText, view>>

\* Parser::parseValue, lines 266-269: nothing but whitespace is left
ValueEnd ==
    /\ In("parseValue", "entry")
    /\ skipWhitespace(view) = <<>>
    /\ view' = <<>>
    /\ Raise("Unexpected end of input")
    /\ UNCHANGED <<buildVars, strVars, utfVars, tableVars, nullVars, copyVars, codecVars, dumpVars, accessVars, fileText>>

\* Parser::parseValue, lines 272-277: an object, an array or a string starts
ValueCall ==
    /\ In("parseValue", "entry")
    /\ LET v == skipWhitespace(view)
       IN  /\ v # <<>>
           /\ v[1] \in {"{", "[", "\""}
           /\ view' = v
           /\ stack' = Call([top EXCEPT !.pc = "ret"],
                            Frame((CASE v[1] = "{" -> "parseObject"
                                     [] v[1] = "[" -> "parseArray"
                                     [] OTHER -> "parseString"), "entry"))
    /\ UNCHANGED <<buildVars, strVars, utfVars, tableVars, nullVars, copyVars, codecVars, dumpVars, accessVars, fileText, ret, root, ppc, err>>

\* Parser::parseValue, lines 278-279: parseLiteral
ValueLiteral ==
    /\ In("parseValue", "entry")
    /\ LET v == skipWhitespace(view)
           r == parseLiteral(v)
       IN  /\ v # <<>>
           /\ v[1] \in {"t", "f", "n"}
           /\ view' = r.view
           /\ IF r.status = "ok"
              THEN /\ stack' = Pop
                   /\ ret' = r.value
                   /\ UNCHANGED <<root, ppc, err>>
              ELSE Raise(r.what)
    /\ UNCHANGED <<buildVars, strVars, utfVars, tableVars, nullVars, copyVars, codecVars, dumpVars, accessVars, fileText>>

\* Parser::parseValue, lines 280-281: parseNumber
ValueNumber(cast) ==
    /\ In("parseValue", "entry")
    /\ \E v \in {skipWhitespace(view)} :
           /\ v # <<>>
           /\ v[1] = "-" \/ isdigit(v[1])
           /\ \E r \in {parseNumber(v, cast)} :
                  /\ view' = r.view
                  /\ IF r.status = "ok"
                     THEN /\ stack' = Pop
                          /\ ret' = r.value
                          /\ UNCHANGED <<root, ppc, err>>
                     ELSE Raise(r.what)
    /\ UNCHANGED <<buildVars, strVars, utfVars, tableVars, nullVars, copyVars, codecVars, dumpVars, accessVars, fileText>>

\* Parser::parseValue, lines 282-283: no value starts with this character
ValueBad ==
    /\ In("parseValue", "entry")
    /\ LET v == skipWhitespace(view)
       IN  /\ v # <<>>
           /\ v[1] \notin {"{", "[", "\"", "t", "f", "n", "-"}
           /\ ~isdigit(v[1])
           /\ view' = v
    /\ Raise("Unexpected character")
    /\ UNCHANGED <<buildVars, strVars, utfVars, tableVars, nullVars, copyVars, codecVars, dumpVars, accessVars, fileText>>

\* Parser::parseValue returns what parseObject, parseArray or parseString returned
ValueReturn ==
    /\ In("parseValue", "ret")
    /\ stack' = Pop
    /\ UNCHANGED <<buildVars, strVars, utfVars, tableVars, nullVars, copyVars, codecVars, dumpVars, accessVars, fileText, view, ret, root, ppc, err>>

\* parseString, lines 110-116: the opening quote
StringEntry ==
    /\ In("parseString", "entry")
    /\ LET v == skipWhitespace(view)
       IN  IF v = <<>> \/ v[1] # "\""
           THEN /\ view' = v
                /\ Raise("Expected string literal")
           ELSE /\ view' = Tail(v)
                /\ stack' = SetTop([top EXCEPT !.pc = "loop", !.str = <<>>])
                /\ UNCHANGED <<ret, root, ppc, err>>
    /\ UNCHANGED <<buildVars, strVars, utfVars, tableVars, nullVars, copyVars, codecVars, dumpVars, accessVars, fileText>>

\* parseString, lines 117-176: one turn of the character loop
StringChar ==
    /\ In("parseString", "loop")
    /\ view # <<>>
    /\ view[1] # "\""
    /\ LET r == StringTurn(view)
       IN  /\ view' = r.view
           /\ IF r.status = "ok"
              THEN /\ stack' = SetTop([top EXCEPT !.str = @ \o r.out])
                   /\ UNCHANGED <<ret, root, ppc, err>>
              ELSE Raise(r.what)
    /\ UNCHANGED <<buildVars, strVars, utfVars, tableVars, nullVars, copyVars, codecVars, dumpVars, accessVars, fileText>>

\* parseString, lines 178-179: the closing quote is skipped and the string
\* returned
StringClose ==
    /\ In("parseString", "loop")
    /\ view # <<>>
    /\ view[1] = "\""
    /\ view' = Tail(view)
    /\ stack' = Pop
    /\ ret' = JsonString(top.str)
    /\ UNCHANGED <<buildVars, strVars, utfVars, tableVars, nullVars, copyVars, codecVars, dumpVars, accessVars, fileText, root, ppc, err>>

\* parseString, line 178, when the loop ended because the view is empty:
\* view.remove_prefix(1) on an empty view.  A checked library aborts.  An
\* unchecked one leaves a view of SIZE_MAX characters that starts after the
\* content, so every later read is outside the content and the view cannot
\* become empty again: the process is killed by a read, or some later test
\* on what is read throws.
StringUnterminated(outcome) ==
    /\ In("parseString", "loop")
    /\ view = <<>>
    /\ IF hardened THEN AssertFail /\ view' = view
       ELSE /\ view' = Beyond
            /\ IF outcome = "crash"
               THEN /\ ppc' = "crash"
                    /\ UNCHANGED <<err, stack, ret, root>>
               ELSE Raise(outcome)
    /\ UNCHANGED <<buildVars, strVars, utfVars, tableVars, nullVars, copyVars, codecVars, dumpVars, accessVars, fileText>>

\* the member loop of parseObject starts its next turn: parseString(view) for the key
KeyCall(f) == Call([f EXCEPT !.pc = "colon"], Frame("parseString", "entry"))

\* parseObject, lines 184-200: '{', then '}' or the first key
ObjectEntry ==
    /\ In("parseObject", "entry")
    /\ LET v1 == skipWhitespace(view)
           v2 == skipWhitespace(Tail(v1))
       IN  IF v1 = <<>> \/ v1[1] # "{"
           THEN /\ view' = v1
                /\ Raise("Expected object start")
           ELSE /\ view' = IF Front(v2) = "}" THEN Tail(v2) ELSE v2
                /\ IF v2 = <<>> /\ hardened THEN AssertFail
                   ELSE IF Front(v2) = "}"
                   THEN /\ stack' = Pop
                        /\ ret' = JsonObjectValue(top.obj)
                        /\ UNCHANGED <<root, ppc, err>>
                   ELSE /\ stack' = KeyCall(top)
                        /\ UNCHANGED <<ret, root, ppc, err>>
    /\ UNCHANGED <<buildVars, strVars, utfVars, tableVars, nullVars, copyVars, codecVars, dumpVars, accessVars, fileText>>

\* parseObject, lines 201-213: the key has been parsed; ':' and parseValue(view)
ObjectColon ==
    /\ In("parseObject", "colon")
    /\ LET v == skipWhitespace(view)
       IN  IF ret.type # "String"
           THEN /\ view' = view
                /\ Raise("Expected string key")
           ELSE /\ view' = IF Front(v) = ":" THEN Tail(v) ELSE v
                /\ IF v = <<>> /\ hardened THEN AssertFail
                   ELSE IF Front(v) # ":" THEN Raise("Expected ':' after key")
                   ELSE /\ stack' = Call([top EXCEPT !.pc = "insert", !.key = ret.v],
                                         Frame("parseValue", "entry"))
                        /\ ret' = NoRet
                        /\ UNCHANGED <<root, ppc, err>>
    /\ UNCHANGED <<buildVars, strVars, utfVars, tableVars, nullVars, copyVars, codecVars, dumpVars, accessVars, fileText>>

\* parseObject, lines 214-226: the value is stored under the key; '}' or ','
ObjectInsert ==
    /\ In("parseObject", "insert")
    /\ LET keys == MapAssign(top.obj, top.key, ret)
           v == skipWhitespace(view)
       IN  /\ view' = IF Front(v) = "}" THEN Tail(v)
                      ELSE IF Front(v) = "," THEN skipWhitespace(Tail(v))
                      ELSE v
           /\ IF v = <<>> /\ hardened THEN AssertFail
              ELSE IF Front(v) = "}"
              THEN /\ stack' = Pop
                   /\ ret' = JsonObjectValue(keys)
                   /\ UNCHANGED <<root, ppc, err>>
              ELSE IF Front(v) = ","
              THEN /\ stack' = KeyCall([top EXCEPT !.obj = keys])
                   /\ ret' = NoRet
                   /\ UNCHANGED <<root, ppc, err>>
              ELSE Raise("Expected ',' or '}'")
    /\ UNCHANGED <<buildVars, strVars, utfVars, tableVars, nullVars, copyVars, codecVars, dumpVars, accessVars, fileText>>

\* the element loop of parseArray starts its next turn: parseValue(view)
ElementCall(f) == Call([f EXCEPT !.pc = "push"], Frame("parseValue", "entry"))

\* parseArray, lines 232-247: '[', then ']' or the first element
ArrayEntry ==
    /\ In("parseArray", "entry")
    /\ LET v1 == skipWhitespace(view)
           v2 == skipWhitespace(Tail(v1))
       IN  IF v1 = <<>> \/ v1[1] # "["
           THEN /\ view' = v1
                /\ Raise("Expected array start")
           ELSE /\ view' = IF Front(v2) = "]" THEN Tail(v2) ELSE v2
                /\ IF v2 = <<>> /\ hardened THEN AssertFail
                   ELSE IF Front(v2) = "]"
                   THEN /\ stack' = Pop
                        /\ ret' = JsonArrayValue(top.arr)
                        /\ UNCHANGED <<root, ppc, err>>
                   ELSE /\ stack' = ElementCall(top)
                        /\ UNCHANGED <<ret, root, ppc, err>>
    /\ UNCHANGED <<buildVars, strVars, utfVars, tableVars, nullVars, copyVars, codecVars, dumpVars, accessVars, fileText>>

\* parseArray, lines 248-260: the element is pushed back; ']' or ','
ArrayPush ==
    /\ In("parseArray", "push")
    /\ LET data == Append(top.arr, ret)
           v == skipWhitespace(view)
       IN  /\ view' = IF Front(v) = "]" THEN Tail(v)
                      ELSE IF Front(v) = "," THEN skipWhitespace(Tail(v))
                      ELSE v
           /\ IF v = <<>> /\ hardened THEN AssertFail
              ELSE IF Front(v) = "]"
              THEN /\ stack' = Pop
                   /\ ret' = JsonArrayValue(data)
                   /\ UNCHANGED <<root, ppc, err>>
              ELSE IF Front(v) = ","
              THEN /\ stack' = ElementCall([top EXCEPT !.arr = data])
                   /\ ret' = NoRet
                   /\ UNCHANGED <<root, ppc, err>>
              ELSE Raise("Expected ',' or ']'")
    /\ UNCHANGED <<buildVars, strVars, utfVars, tableVars, nullVars, copyVars, codecVars, dumpVars, accessVars, fileText>>

\* Parser::parse, lines 296-302: parseValue returned the root
ParseFinish ==
    /\ ppc = "run"
    /\ stack = <<>>
    /\ LET v == skipWhitespace(view)
       IN  /\ view' = v
           /\ IF v # <<>> THEN Raise("Extra data after valid JSON value")
              ELSE /\ ppc' = "done"
                   /\ root' = ret
                   /\ ret' = NoRet
                   /\ UNCHANGED <<stack, err>>
    /\ UNCHANGED <<buildVars, strVars, utfVars, tableVars, nullVars, copyVars, codecVars, dumpVars, accessVars, fileText>>

ParserNext ==
    \/ ParseOpen
    \/ ParseOpenFail
    \/ ValueEnd
    \/ ValueCall
    \/ ValueLiteral
    \/ \E cast \in {"indefinite", "saturate"} : ValueNumber(cast)
    \/ ValueBad
    \/ ValueReturn
    \/ StringEntry
    \/ StringChar
    \/ StringClose
    \/ \E outcome \in {"crash"} \cup Messages : StringUnterminated(outcome)
    \/ ObjectEntry
    \/ ObjectColon
    \/ ObjectInsert
    \/ ArrayEntry
    \/ ArrayPush
    \/ ParseFinish

ParserSpec == ParserInit /\ [][ParserNext]_vars

\* Parser::parse runs on one thread that nothing suspends: while a statement
\* of a parsing function is left to execute, it is executed
FairParserSpec == ParserSpec /\ WF_vars(ParserNext)

(***************************************************************************)
(* The serializer (dump.cpp).                                              *)
(***************************************************************************)
\* The value of the text of a double: digits * 10^exp, negated when neg.
\* The text is a literal as std::stod converts it.
DecimalOf(text) ==
    LET neg == text # <<>> /\ text[1] = "-"
        n0 == IF neg THEN 1 ELSE 0
        n1 == SpanLen(text, n0 + 1, Digit)
        point == n1 < Len(text) /\ text[n1 + 1] = "."
        n2 == IF point THEN SpanLen(text, n1 + 2, Digit) ELSE n1
        marker == n2 < Len(text)
        eneg == marker /\ text[n2 + 2] = "-"
        e0 == IF marker /\ text[n2 + 2] \in {"+", "-"} THEN n2 + 3 ELSE n2 + 2
        e == DigitsOf(SubSeq(text, e0, Len(text)))
        k == Len(e)
        emag == (IF k >= 1 THEN e[k] ELSE 0) + (IF k >= 2 THEN 10 * e[k - 1] ELSE 0)
                + (IF k >= 3 THEN 100 * e[k - 2] ELSE 0)
    IN  [neg |-> neg,
         digits |-> Canon(DigitsOf(SubSeq(text, n0 + 1, n1) \o SubSeq(text, n1 + 2, n2))),
         exp |-> (IF eneg THEN 0 - emag ELSE emag) - (IF point THEN n2 - (n1 + 1) ELSE 0)]

\* out << d for a finite double: the %g conversion with the stream's default
\* precision of 6 significant digits.  Rounding is to nearest, ties to even,
\* on the decimal digits; a decimal tie that is not a tie of the binary value
\* is outside the values used here.
FormatG(d) ==
    LET sig == d.digits
        n == Len(sig)
        head == SubSeq(sig, 1, 6)
        up == \/ sig[7] > 5
              \/ sig[7] = 5 /\ ((\E i \in 8..n : sig[i] # 0) \/ Odd(head))
        D == IF n <= 6 THEN sig ELSE IF up THEN Inc(head) ELSE head
        X == IF n <= 6 THEN (n - 1) + d.exp ELSE (Len(D) - 1) + (n - 6) + d.exp
        m == CHOOSE i \in 1..Len(D) : D[i] # 0 /\ \A j \in (i + 1)..Len(D) : D[j] = 0
        S == SubSeq(D, 1, m)
        ax == IF X < 0 THEN 0 - X ELSE X
        fixed ==
            IF X >= 0
            THEN TextOf([i \in 1..(X + 1) |-> IF i <= m THEN S[i] ELSE 0])
                 \o (IF m > X + 1 THEN <<".">> \o TextOf(SubSeq(S, X + 2, m)) ELSE <<>>)
            ELSE <<"0", ".">> \o TextOf(Zero(ax - 1) \o S)
        scientific ==
            TextOf(<<S[1]>>)
            \o (IF m > 1 THEN <<".">> \o TextOf(SubSeq(S, 2, m)) ELSE <<>>)
            \o <<"e", (IF X < 0 THEN "-" ELSE "+")>>
            \o TextOf(IF ax < 100 THEN <<ax \div 10, ax % 10>>
                      ELSE <<ax \div 100, (ax \div 10) % 10, ax % 10>>)
    IN  (IF d.neg THEN <<"-">> ELSE <<>>)
        \o (IF sig = <<0>> THEN <<"0">>
            ELSE IF X >= -4 /\ X < 6 THEN fixed
            ELSE scientific)

\* the text JsonDumper writes for a double that is infinite
Infinity == <<"i", "n", "f">>

\* An escape that puts a backslash before quotes only.
RECURSIVE escape_quoteonly(_)
escape_quoteonly(s) ==
    IF s = <<>> THEN <<>>
    ELSE (IF s[1] = "\"" THEN <<"\\", s[1]>> ELSE <<s[1]>>) \o escape_quoteonly(Tail(s))

\* DumpVisitor::escape
RECURSIVE escape(_)
escape(s) ==
    IF s = <<>> THEN <<>>
    ELSE (IF s[1] \in {"\\", "\""} THEN <<"\\", s[1]>> ELSE <<s[1]>>) \o escape(Tail(s))

\* The order in which a std::unordered_map with the keys of map is iterated.
\* The order is unspecified and depends on how the map was filled; order is a
\* sequence of keys, and the keys of map come in the order they have in it,
\* followed by the keys that are not in it.
KeysInOrder(map, order) ==
    LET listed == SelectSeq(order, LAMBDA k : k \in DOMAIN map)
        extra == DOMAIN map \ {order[i] : i \in 1..Len(order)}
        others == CHOOSE q \in [1..Cardinality(extra) -> extra] :
                      {q[i] : i \in 1..Cardinality(extra)} = extra
    IN  listed \o others

RECURSIVE dumpValue(_, _), dumpObject(_, _, _), dumpArray(_, _)

\* DumpVisitor::dumpObject: the loop over the members keys names, then '}'
dumpObject(map, keys, order) ==
    IF keys = <<>> THEN <<"}">>
    ELSE Quoted(escape(keys[1])) \o <<":", " ">> \o dumpValue(map[keys[1]], order)
         \o (IF Len(keys) > 1 THEN <<",", " ">> ELSE <<>>)
         \o dumpObject(map, Tail(keys), order)

\* DumpVisitor::dumpArray: the loop over the elements of vec, then ']'
dumpArray(vec, order) ==
    IF vec = <<>> THEN <<"]">>
    ELSE dumpValue(vec[1], order)
         \o (IF Len(vec) > 1 THEN <<",", " ">> ELSE <<>>)
         \o dumpArray(Tail(vec), order)

\* JsonDumper::dumpValue: std::visit of DumpVisitor on the variant
dumpValue(value, order) ==
    CASE value.alt = "monostate" -> <<"n", "u", "l", "l">>
      [] value.alt = "bool" ->
            IF value.v THEN <<"t", "r", "u", "e">> ELSE <<"f", "a", "l", "s", "e">>
      [] value.alt = "double" ->
            IF value.v = Infinity THEN Infinity ELSE FormatG(DecimalOf(value.v))
      [] value.alt = "int64_t" -> value.v
      [] value.alt = "string" -> Quoted(escape(value.v))
      [] value.alt = "JsonObject" ->
            <<"{">> \o dumpObject(value.v, KeysInOrder(value.v, order), order)
      [] value.alt = "JsonArray" -> <<"[">> \o dumpArray(value.v, order)

(***************************************************************************)
(* A tree is serialized, the text is parsed, and the parsed tree is        *)
(* serialized again.                                                       *)
(***************************************************************************)
\* the orders in which the members of an object may be written
KeyOrders == {<<<<"a">>, <<"b">>>>, <<<<"b">>, <<"a">>>>}

\* The trees handed to JsonDumper::dump, one family for each kind of payload:
\* every alternative of the variant, strings and keys with quotes and
\* backslashes, containers one inside the other.
Trees ==
    LET strings == SeqsUpTo({"a", "\"", "\\", "\n"}, MaxElems) \cup {<<"a", "\"", "b">>}
        doubles == {<<"4", "2", ".", "0">>, <<"0", ".", "5">>, <<"-", "2", ".", "5", "e", "-", "7">>,
                    <<"1", "2", "3", "4", "5", "6", "7", ".", "0">>, <<"1", "e", "1", "0", "0">>,
                    Infinity}
        ints == {<<"4", "2">>, <<"-", "7">>,
                 <<"9", "0", "0", "7", "1", "9", "9", "2", "5", "4", "7", "4", "0", "9", "9", "3">>}
        leaves == {JsonNull, JsonInt(<<"1">>), JsonDouble(<<"0", ".", "5">>), JsonString(<<"a">>)}
        arrays == {JsonArrayValue(vec) : vec \in SeqsUpTo(leaves, MaxElems)}
        objects == {JsonObjectValue(map) :
                       map \in UNION {[K -> leaves] : K \in SUBSET {<<"a">>, <<"b">>}}}
    IN  <<{JsonNull},
          {JsonBool(TRUE), JsonBool(FALSE)},
          {JsonInt(i) : i \in ints} \cup {JsonDouble(d) : d \in doubles},
          {JsonString(s) : s \in strings},
          arrays,
          {JsonArrayValue(<<o, o>>) : o \in objects},
          objects
          \cup {JsonObjectValue(MapAssign(EmptyMap, s, JsonString(s))) : s \in strings},
          {JsonObjectValue(MapAssign(MapAssign(EmptyMap, <<"a">>, x), <<"b">>, JsonNull)) :
              x \in arrays},
          {JsonObjectValue(MapAssign(MapAssign(EmptyMap, <<"a">>, x), <<"b">>, JsonNull)) :
              x \in objects}>>

RoundTripInit ==
    /\ impl = "cpp"
    /\ endian = "little"
    /\ hardened \in BOOLEAN
    /\ StrIdle
    /\ UtfIdle
    /\ TableIdle
    /\ NullIdle
    /\ CopyIdle
    /\ CodecIdle
    /\ fileText = <<>>
    /\ view = <<>>
    /\ stack = <<>>
    /\ ret = NoRet
    /\ root = NoRet
    /\ ppc = "off"
    /\ err = ""
    /\ \E i \in DOMAIN Trees : tree \in Trees[i]
    /\ dumped = <<>>
    /\ redumped = <<>>
    /\ dpc = "built"
    /\ AccessIdle

\* JsonDumper::dump(value, out) on the tree; what it wrote is the file
\* Parser::parse will read
Dump(order) ==
    /\ dpc = "built"
    /\ dumped' = dumpValue(tree, order)
    /\ fileText' = dumped'
    /\ ppc' = "start"
    /\ dpc' = "written"
    /\ UNCHANGED <<buildVars, strVars, utfVars, tableVars, nullVars, copyVars, codecVars, accessVars, view, stack, ret, root, err, tree, redumped>>

\* JsonDumper::dump(value, out) on the root Parser::parse returned
Redump(order) ==
    /\ dpc = "written"
    /\ ppc = "done"
    /\ redumped' = dumpValue(root, order)
    /\ dpc' = "rewritten"
    /\ UNCHANGED <<buildVars, strVars, utfVars, tableVars, nullVars, copyVars, codecVars, parserVars, accessVars, tree, dumped>>

\* The parser's steps are those a text written by JsonDumper can take: such a
\* text is never empty and closes every string it opens.
RoundTripNext ==
    \/ \E order \in KeyOrders : Dump(order)
    \/ ParseOpen
    \/ ValueCall
    \/ ValueLiteral
    \/ \E cast \in {"indefinite", "saturate"} : ValueNumber(cast)
    \/ ValueBad
    \/ ValueReturn
    \/ StringEntry
    \/ StringChar
    \/ StringClose
    \/ ObjectEntry
    \/ ObjectColon
    \/ ObjectInsert
    \/ ArrayEntry
    \/ ArrayPush
    \/ ParseFinish
    \/ \E order \in KeyOrders : Redump(order)

RoundTripSpec == RoundTripInit /\ [][RoundTripNext]_vars

(***************************************************************************)
(* jasson::Value and its checked accessors.                                *)
(***************************************************************************)
\* The Values the constructors build.  A constructor sets type_ and the
\* member of its payload.  boolean_, integer_ and double_ have no
\* initializer, so in a Value of another type they hold any value; the
\* strings and vectors are empty then.  A ValuePtr is written as a name.
Values ==
    LET scalars == [boolean_ : BOOLEAN, integer_ : {0, 123},
                    double_ : {<<"0", ".", "0">>, <<"1", ".", "5">>}]
        Value(type, m, s, a, o) ==
            [type_ |-> type, boolean_ |-> m.boolean_, integer_ |-> m.integer_,
             double_ |-> m.double_, string_ |-> s, array_ |-> a, object_ |-> o]
    IN  {Value(type, m, <<>>, <<>>, <<>>) :
            type \in {"Null", "Boolean", "Integer", "Double"}, m \in scalars}
        \cup {Value("String", m, s, <<>>, <<>>) : m \in scalars, s \in {<<>>, <<"a">>}}
        \cup {Value("Array", m, <<>>, a, <<>>) : m \in scalars, a \in {<<>>, <<"p">>}}
        \cup {Value("Object", m, <<>>, <<>>, o) : m \in scalars, o \in {<<>>, <<"p">>}}

\* An accessor that returns its member whatever the type is.
Accessor_unchecked(fn, value) ==
    [fn |-> fn, status |-> "returned", what |-> "",
     value |-> CASE fn = "as_bool" -> value.boolean_
                 [] fn = "as_integer" -> value.integer_
                 [] fn = "as_double" -> value.double_
                 [] fn = "as_string" -> value.string_
                 [] fn = "as_array" -> value.array_
                 [] fn = "as_object" -> value.object_]

\* Value::as_bool, as_integer, as_double, as_string, as_array and as_object:
\* if (type_ != ValueType::X) throw std::bad_variant_access(); return x_;
Accessor(fn, value) ==
    LET X == CASE fn = "as_bool" -> "Boolean"
               [] fn = "as_integer" -> "Integer"
               [] fn = "as_double" -> "Double"
               [] fn = "as_string" -> "String"
               [] fn = "as_array" -> "Array"
               [] fn = "as_object" -> "Object"
    IN  IF value.type_ # X
        THEN [fn |-> fn, status |-> "thrown", what |-> "std::bad_variant_access", value |-> <<>>]
        ELSE [fn |-> fn, status |-> "returned", what |-> "",
              value |-> CASE fn = "as_bool" -> value.boolean_
                          [] fn = "as_integer" -> value.integer_
                          [] fn = "as_double" -> value.double_
                          [] fn = "as_string" -> value.string_
                          [] fn = "as_array" -> value.array_
                          [] fn = "as_object" -> value.object_]

AccessInit ==
    /\ impl = "cpp"
    /\ endian = "little"
    /\ hardened \in BOOLEAN
    /\ StrIdle
    /\ UtfIdle
    /\ TableIdle
    /\ NullIdle
    /\ CopyIdle
    /\ CodecIdle
    /\ ParserIdle
    /\ DumpIdle
    /\ val \in Values
    /\ got = [fn |-> "", status |-> "none", what |-> "", value |-> <<>>]

\* one call of an accessor on the Value; the accessors are const
Access(fn) ==
    /\ got' = Accessor(fn, val)
    /\ UNCHANGED <<buildVars, strVars, utfVars, tableVars, nullVars, copyVars, codecVars, parserVars, dumpVars, val>>

AccessSpec ==
    AccessInit
    /\ [][\E fn \in {"as_bool", "as_integer", "as_double", "as_string", "as_array", "as_object"} :
              Access(fn)]_vars

(***************************************************************************)
(* JsonObject and JsonArray: a container and its copy.  data_ holds a      *)
(* std::shared_ptr<JsonValue> for each key or index; heap holds the nodes  *)
(* the pointers point to, and a pointer is the index of its node.          *)
(***************************************************************************)
\* data_ of the container a mutation goes through
Container(side) == IF side = "original" THEN original ELSE copied

\* data_ of that container becomes data
Store(side, data) ==
    /\ original' = IF side = "original" THEN data ELSE original
    /\ copied' = IF side = "original" THEN copied ELSE data

\* a container of up to two children, each a number
CopyInit ==
    /\ impl = "cpp"
    /\ endian = "little"
    /\ hardened \in BOOLEAN
    /\ StrIdle
    /\ UtfIdle
    /\ TableIdle
    /\ NullIdle
    /\ CodecIdle
    /\ ParserIdle
    /\ DumpIdle
    /\ AccessIdle
    /\ cls \in {"JsonObject", "JsonArray"}
    /\ \E n \in 0..2 :
          /\ heap = [i \in 1..n |-> 0]
          /\ original = IF cls = "JsonArray" THEN [i \in 1..n |-> i]
                        ELSE [k \in (IF n = 0 THEN {} ELSE IF n = 1 THEN {"a"} ELSE {"a", "b"}) |->
                                 IF k = "a" THEN 1 ELSE 2]
    /\ copied = <<>>
    /\ last = "none"
    /\ kpc = "built"

\* The copy constructor of JsonObject or JsonArray, which the class leaves to
\* the compiler: data_ is copied member-wise, so the copy holds the same
\* shared pointers.  JsonValue(const JsonObject&) and JsonValue(const
\* JsonArray&) make their container with this constructor.
Copy ==
    /\ kpc = "built"
    /\ copied' = original
    /\ kpc' = "copied"
    /\ UNCHANGED <<buildVars, strVars, utfVars, tableVars, nullVars, codecVars, parserVars, dumpVars, accessVars, cls, heap, original, last>>

\* container.at(key) = JsonValue(value): the node the pointer points to is assigned
AssignAt(side, key, value) ==
    /\ kpc = "copied"
    /\ key \in DOMAIN Container(side)
    /\ heap' = [heap EXCEPT ![Container(side)[key]] = value]
    /\ last' = side
    /\ UNCHANGED <<buildVars, strVars, utfVars, tableVars, nullVars, codecVars, parserVars, dumpVars, accessVars, cls, original, copied, kpc>>

\* JsonObject::insert(key, value): data_[key] = std::make_shared<JsonValue>(value)
insert(side, key, value) ==
    /\ kpc = "copied"
    /\ cls = "JsonObject"
    /\ Len(heap) < MaxNodes
    /\ heap' = Append(heap, value)
    /\ Store(side, MapAssign(Container(side), key, Len(heap) + 1))
    /\ last' = side
    /\ UNCHANGED <<buildVars, strVars, utfVars, tableVars, nullVars, codecVars, parserVars, dumpVars, accessVars, cls, kpc>>

\* JsonArray::push_back(value): data_.push_back(std::make_shared<JsonValue>(value))
push_back(side, value) ==
    /\ kpc = "copied"
    /\ cls = "JsonArray"
    /\ Len(heap) < MaxNodes
    /\ heap' = Append(heap, value)
    /\ Store(side, Append(Container(side), Len(heap) + 1))
    /\ last' = side
    /\ UNCHANGED <<buildVars, strVars, utfVars, tableVars, nullVars, codecVars, parserVars, dumpVars, accessVars, cls, kpc>>

\* JsonObject::erase(key): data_.erase(key)
erase(side, key) ==
    /\ kpc = "copied"
    /\ cls = "JsonObject"
    /\ Store(side, [k \in DOMAIN Container(side) \ {key} |-> Container(side)[k]])
    /\ last' = side
    /\ UNCHANGED <<buildVars, strVars, utfVars, tableVars, nullVars, codecVars, parserVars, dumpVars, accessVars, cls, heap, kpc>>

CopySpec ==
    CopyInit
    /\ [][\/ Copy
          \/ \E side \in {"original", "copy"}, value \in {1, 2} :
                \/ \E key \in (IF cls = "JsonArray" THEN 1..MaxNodes ELSE {"a", "b"}) :
                      AssignAt(side, key, value)
                \/ \E key \in {"a", "b"} : insert(side, key, value)
                \/ push_back(side, value)
                \/ \E key \in {"a", "b"} : erase(side, key)]_vars

(***************************************************************************)
(* Value::NullValue() called from several threads.                         *)
(***************************************************************************)
NullInit ==
    /\ impl = "cpp"
    /\ endian = "little"
    /\ hardened \in BOOLEAN
    /\ StrIdle
    /\ UtfIdle
    /\ TableIdle
    /\ CodecIdle
    /\ ParserIdle
    /\ DumpIdle
    /\ AccessIdle
    /\ CopyIdle
    /\ tpc = [t \in 1..MaxThreads |-> "idle"]
    /\ made = FALSE

\* static ValuePtr null_value = std::make_shared<Value>(): the first call
\* that comes here constructs the instance, under the guard the language puts
\* around the initialization of a local static; every other call passes
StaticInit(t) ==
    /\ tpc[t] = "idle"
    /\ made' = TRUE
    /\ tpc' = [tpc EXCEPT ![t] = "assign"]
    /\ UNCHANGED <<buildVars, strVars, utfVars, tableVars, codecVars, parserVars, dumpVars, accessVars, copyVars>>

\* null_value->type_ = ValueType::Null: the store to type_ of the shared
\* instance begins; no lock is held
AssignBegin(t) ==
    /\ tpc[t] = "assign"
    /\ tpc' = [tpc EXCEPT ![t] = "writing"]
    /\ UNCHANGED <<buildVars, strVars, utfVars, tableVars, codecVars, parserVars, dumpVars, accessVars, copyVars, made>>

\* the store is done; return null_value
AssignEnd(t) ==
    /\ tpc[t] = "writing"
    /\ tpc' = [tpc EXCEPT ![t] = "reading"]
    /\ UNCHANGED <<buildVars, strVars, utfVars, tableVars, codecVars, parserVars, dumpVars, accessVars, copyVars, made>>

\* the caller reads type() of the instance it was given, and may call again
ReadType(t) ==
    /\ tpc[t] = "reading"
    /\ tpc' = [tpc EXCEPT ![t] = "idle"]
    /\ UNCHANGED <<buildVars, strVars, utfVars, tableVars, codecVars, parserVars, dumpVars, accessVars, copyVars, made>>

NullSpec ==
    NullInit
    /\ [][\E t \in 1..MaxThreads :
              StaticInit(t) \/ AssignBegin(t) \/ AssignEnd(t) \/ ReadType(t)]_vars

(***************************************************************************)
(* HashTable<K, V> (and JsonStringHashTable, which repeats it) used by     *)
(* several threads.                                                        *)
(***************************************************************************)
\* A lock that is granted whoever holds the mutex.
Available_always(op) == TRUE

\* The lock an operation takes in its first statement can be granted:
\* std::unique_lock for insert, erase and clear, std::shared_lock for find
\* and size.
Available(op) ==
    IF op \in {"insert", "erase", "clear"}
    THEN mutex_.owner = 0 /\ mutex_.sharers = {}
    ELSE mutex_.owner = 0

\* What an operation does to the map and what it returns, between taking the
\* lock and returning.  insert is map_.emplace(key, value), which stores
\* nothing when the key is present.
HashTableOp(op, map, key, value) ==
    CASE op = "insert" ->
            [map |-> IF key \in DOMAIN map THEN map
                     ELSE [k \in DOMAIN map \cup {key} |-> IF k = key THEN value ELSE map[k]],
             ret |-> <<key \notin DOMAIN map>>]
      [] op = "erase" ->
            [map |-> [k \in DOMAIN map \ {key} |-> map[k]], ret |-> <<key \in DOMAIN map>>]
      [] op = "find" ->
            [map |-> map, ret |-> IF key \in DOMAIN map THEN <<map[key]>> ELSE <<>>]
      [] op = "clear" -> [map |-> <<>>, ret |-> <<>>]
      [] op = "size" -> [map |-> map, ret |-> <<Cardinality(DOMAIN map)>>]

TableInit ==
    /\ impl = "cpp"
    /\ endian = "little"
    /\ hardened \in BOOLEAN
    /\ StrIdle
    /\ UtfIdle
    /\ CodecIdle
    /\ ParserIdle
    /\ DumpIdle
    /\ AccessIdle
    /\ CopyIdle
    /\ NullIdle
    /\ map_ = <<>>
    /\ mutex_ = [owner |-> 0, sharers |-> {}]
    /\ thr = [t \in 1..MaxThreads |->
                 [pc |-> "idle", op |-> "", key |-> "", value |-> 0, had |-> FALSE, n |-> 0, ret |-> <<>>]]

\* A thread calls an operation; its first statement constructs the lock and
\* blocks until the mutex can be granted.
Lock(t, op, key, value) ==
    /\ thr[t].pc = "idle"
    /\ Available(op)
    /\ mutex_' = IF op \in {"insert", "erase", "clear"}
                 THEN [mutex_ EXCEPT !.owner = t]
                 ELSE [mutex_ EXCEPT !.sharers = @ \cup {t}]
    /\ thr' = [thr EXCEPT ![t] = [pc |-> "access", op |-> op,
                                  key |-> IF op \in {"clear", "size"} THEN "" ELSE key,
                                  value |-> IF op = "insert" THEN value ELSE 0,
                                  had |-> FALSE, n |-> 0, ret |-> <<>>]]
    /\ UNCHANGED <<buildVars, strVars, utfVars, codecVars, parserVars, dumpVars, accessVars, copyVars, nullVars, map_>>

\* The body of the operation: the map is read or changed.  had and n keep
\* whether the key was present and the size when the body started.
Apply(t) ==
    /\ thr[t].pc = "access"
    /\ LET r == HashTableOp(thr[t].op, map_, thr[t].key, thr[t].value)
       IN  /\ map_' = r.map
           /\ thr' = [thr EXCEPT ![t].pc = "return", ![t].ret = r.ret,
                                 ![t].had = thr[t].key \in DOMAIN map_,
                                 ![t].n = Cardinality(DOMAIN map_)]
    /\ UNCHANGED <<buildVars, strVars, utfVars, codecVars, parserVars, dumpVars, accessVars, copyVars, nullVars, mutex_>>

\* The operation returns: the destructor of the lock releases the mutex, on
\* the early return of erase and find as on the last one.
Unlock(t) ==
    /\ thr[t].pc = "return"
    /\ mutex_' = [owner |-> IF mutex_.owner = t THEN 0 ELSE mutex_.owner,
                  sharers |-> mutex_.sharers \ {t}]
    /\ thr' = [thr EXCEPT ![t] = [pc |-> "idle", op |-> "", key |-> "", value |-> 0,
                                  had |-> FALSE, n |-> 0, ret |-> <<>>]]
    /\ UNCHANGED <<buildVars, strVars, utfVars, codecVars, parserVars, dumpVars, accessVars, copyVars, nullVars, map_>>

TableSpec ==
    TableInit
    /\ [][\E t \in 1..MaxThreads :
              \/ \E op \in {"insert", "erase", "find", "clear", "size"},
                    key \in {"a", "b"}, value \in {1, 2} : Lock(t, op, key, value)
              \/ Apply(t)
              \/ Unlock(t)]_vars

(***************************************************************************)
(* namespace Utf8 (utf.cpp).  A string is a sequence of bytes 0..255 and   *)
(* an index counts from 0, as in the source.                               *)
(***************************************************************************)
\* the length a leading byte announces, 0 for an invalid leading byte
\* (the same chain of tests in isValid and in decode)
LeadLen(c) ==
    IF c < 128 THEN 1
    ELSE IF 192 <= c /\ c <= 223 THEN 2
    ELSE IF 224 <= c /\ c <= 239 THEN 3
    ELSE IF 240 <= c /\ c <= 244 THEN 4
    ELSE 0

\* for (j = 0; j < len; ++j) cp = (cp << 6) + (str[i + j] & 0x3F), after j turns
RECURSIVE CodePoint(_, _, _)
CodePoint(str, i, j) ==
    IF j = 0 THEN 0
    ELSE (CodePoint(str, i, j - 1) * 64) + (str[i + j] % 64)

\* One character at index i: its length and code point, or length 0 when the
\* leading byte, the length, a continuation byte or the code point is refused.
Sequence(str, i) ==
    LET len == LeadLen(str[i + 1])
        cp == CodePoint(str, i, len)
    IN  IF len = 0 \/ i + len > Len(str) THEN [len |-> 0, cp |-> 0]
        ELSE IF \E j \in 1..(len - 1) : ~(128 <= str[i + j + 1] /\ str[i + j + 1] <= 191)
        THEN [len |-> 0, cp |-> 0]
        ELSE IF \/ len = 2 /\ cp < 128
                \/ len = 3 /\ cp < 2048
                \/ len = 4 /\ cp < 65536
                \/ cp > 1114111
                \/ cp >= 55296 /\ cp <= 57343
        THEN [len |-> 0, cp |-> 0]
        ELSE [len |-> len, cp |-> cp]

\* Utf8::isValid: the loop from index i on
RECURSIVE isValid(_, _)
isValid(str, i) ==
    IF i >= Len(str) THEN TRUE
    ELSE LET s == Sequence(str, i)
         IN  s.len # 0 /\ isValid(str, i + s.len)

\* Utf8::encode: the bytes appended and the count returned, or the throw
encode(cp) ==
    IF cp < 0 \/ cp > 1114111 THEN [thrown |-> "std::out_of_range", ret |-> 0, bytes |-> <<>>]
    ELSE IF cp < 128 THEN [thrown |-> "", ret |-> 1, bytes |-> <<cp>>]
    ELSE IF cp < 2048
    THEN [thrown |-> "", ret |-> 2,
          bytes |-> <<192 + Bits(cp, 6, 31), 128 + Bits(cp, 0, 63)>>]
    ELSE IF cp < 65536
    THEN [thrown |-> "", ret |-> 3,
          bytes |-> <<224 + Bits(cp, 12, 15), 128 + Bits(cp, 6, 63), 128 + Bits(cp, 0, 63)>>]
    ELSE [thrown |-> "", ret |-> 4,
          bytes |-> <<240 + Bits(cp, 18, 7), 128 + Bits(cp, 12, 63), 128 + Bits(cp, 6, 63),
                      128 + Bits(cp, 0, 63)>>]

\* Utf8::decode: the optional returned and the index left
decode(str, index) ==
    IF index >= Len(str) THEN [ret |-> <<>>, index |-> index]
    ELSE LET s == Sequence(str, index)
         IN  IF s.len = 0 THEN [ret |-> <<>>, index |-> index]
             ELSE [ret |-> <<s.cp>>, index |-> index + s.len]

\* code points at the ends of every encoded length, around the surrogates, and out of range
CodePoints ==
    {-1, 0, 65, 127, 128, 233, 2047, 2048, 8364, 55295, 55296, 57343, 57344, 65535, 65536,
     128512, 1114111, 1114112}

\* strings that are not well-formed: overlong forms, an encoded surrogate, a
\* code point above 0x10FFFF, stray continuation bytes, truncated sequences,
\* invalid leading bytes; and well-formed ones of each length
ByteStrings ==
    {<<192, 128>>, <<193, 191>>, <<224, 128, 128>>, <<240, 128, 128, 128>>,
     <<237, 160, 128>>, <<244, 144, 128, 128>>, <<128>>, <<65, 191>>,
     <<226, 130>>, <<240, 159, 152>>, <<195>>, <<248, 136, 128, 128, 128>>, <<255>>,
     <<195, 40>>, <<>>, <<65>>, <<72, 105>>, <<195, 169>>, <<65, 195, 169>>,
     <<226, 130, 172>>, <<240, 159, 152, 128>>, <<240, 159, 152, 128, 32, 72>>}

UtfInit ==
    /\ impl = "cpp"
    /\ endian = "little"
    /\ hardened \in BOOLEAN
    /\ StrIdle
    /\ CodecIdle
    /\ ParserIdle
    /\ DumpIdle
    /\ AccessIdle
    /\ CopyIdle
    /\ NullIdle
    /\ TableIdle
    /\ \/ ucp \in CodePoints /\ ustr = <<>> /\ calls = <<>>
       \/ ucp = 0 /\ ustr \in ByteStrings /\ calls = <<"given">>
    /\ uindex = 0
    /\ ures = <<>>

\* Utf8::encode(cp, out) on an empty out
Encode ==
    /\ calls = <<>>
    /\ ustr' = encode(ucp).bytes
    /\ ures' = <<encode(ucp).thrown, encode(ucp).ret>>
    /\ calls' = <<"encode">>
    /\ UNCHANGED <<buildVars, strVars, codecVars, parserVars, dumpVars, accessVars, copyVars, nullVars, tableVars, ucp, uindex>>

\* Utf8::decode(str, index) with index 0, on what encode wrote or on a given string
Decode ==
    /\ calls \in {<<"encode">>, <<"given">>}
    /\ ures # <<"std::out_of_range", 0>>
    /\ uindex' = decode(ustr, 0).index
    /\ ures' = decode(ustr, 0).ret
    /\ calls' = Append(calls, "decode")
    /\ UNCHANGED <<buildVars, strVars, codecVars, parserVars, dumpVars, accessVars, copyVars, nullVars, tableVars, ucp, ustr>>

\* Utf8::isValid(str), on what encode wrote or on a given string
IsValid ==
    /\ calls \in {<<"encode">>, <<"given">>}
    /\ ures # <<"std::out_of_range", 0>>
    /\ ures' = <<isValid(ustr, 0)>>
    /\ calls' = Append(calls, "isValid")
    /\ UNCHANGED <<buildVars, strVars, codecVars, parserVars, dumpVars, accessVars, copyVars, nullVars, tableVars, ucp, ustr, uindex>>

UtfSpec == UtfInit /\ [][Encode \/ Decode \/ IsValid]_vars

(***************************************************************************)
(* class StringBuffer (part_005).  A std::string is its size() and the     *)
(* characters of its allocation: capacity() of them and one more for the   *)
(* terminator.  The storage beyond size() is what the memcpy and memmove   *)
(* calls of the class write to.                                            *)
(***************************************************************************)
\* capacity() of an empty std::string (15 in libstdc++), scaled with the data
SsoCapacity == 3

\* a character of an allocation that nothing has written yet
Stale == "?"

capacity(b) == Len(b.data) - 1

\* the capacity an allocation for n characters gets when the old one held old
\* (libstdc++ grows to at least twice the old capacity)
Grown(n, old) == IF n > 2 * old THEN n ELSE 2 * old

\* a std::string of the characters s in an allocation of capacity c
String(s, c) ==
    [size |-> Len(s),
     data |-> [i \in 1..(c + 1) |-> IF i <= Len(s) THEN s[i]
                                    ELSE IF i = Len(s) + 1 THEN NUL ELSE Stale]]

\* memcpy / memmove / assignment through &buffer_[at0]: chars written from offset at0 on
Write(b, at0, chars) ==
    [b EXCEPT !.data = [i \in 1..Len(b.data) |->
                            IF at0 < i /\ i <= at0 + Len(chars) THEN chars[i - at0]
                            ELSE b.data[i]]]

\* buffer_[i] of a library built with assertions fails for i > size()
Checked(b, i) == hardened /\ i > b.size

\* StringBuffer::StringBuffer(initial_size): buffer_() and resize(initial_size, '\0')
StringBuffer(initial_size) ==
    IF initial_size = 0 THEN String(<<>>, SsoCapacity)
    ELSE String([i \in 1..initial_size |-> NUL],
                (IF initial_size <= SsoCapacity THEN SsoCapacity
                 ELSE Grown(initial_size, SsoCapacity)))

\* StringBuffer::ensure_capacity: new_buffer.append(buffer_, size_) is
\* append(str, subpos, sublen = npos), the characters of buffer_ from size_ on
ensure_capacity(b, sz, min_capacity) ==
    IF capacity(b) >= min_capacity THEN [thrown |-> "", buffer |-> b]
    ELSE IF sz > b.size THEN [thrown |-> "std::out_of_range", buffer |-> b]
    ELSE [thrown |-> "",
          buffer |-> String(SubSeq(b.data, sz + 1, b.size) \o <<NUL>>,
                            Grown(min_capacity, SsoCapacity))]

\* StringBuffer::str(): a copy of buffer_
Str == SubSeq(buffer_.data, 1, buffer_.size)

\* what is appended, prepended
Data == {<<"a">>, <<"b", "c">>}

StrInit ==
    /\ impl = "cpp"
    /\ endian = "little"
    /\ hardened \in BOOLEAN
    /\ CodecIdle
    /\ ParserIdle
    /\ DumpIdle
    /\ AccessIdle
    /\ CopyIdle
    /\ NullIdle
    /\ TableIdle
    /\ UtfIdle
    /\ StrIdle

\* StringBuffer sb(initial_size)
Construct(initial_size) ==
    /\ sbpc = "off"
    /\ buffer_' = StringBuffer(initial_size)
    /\ size_' = 0
    /\ content' = <<>>
    /\ sbpc' = "live"
    /\ UNCHANGED <<buildVars, codecVars, parserVars, dumpVars, accessVars, copyVars, nullVars, tableVars, utfVars>>

\* the mutation stops: an exception leaves it, or an assertion of the library ends the process
Stop(how) ==
    /\ sbpc' = how
    /\ UNCHANGED <<buffer_, size_>>

\* StringBuffer::append(data, size) with size > 0
Append_(chars) ==
    /\ sbpc = "live"
    /\ Len(content) + Len(chars) <= MaxContent
    /\ content' = content \o chars
    /\ LET grown == ensure_capacity(buffer_, size_, size_ + Len(chars) + 1)
           n == size_ + Len(chars)
       IN  IF grown.thrown # "" THEN Stop("thrown")
           ELSE IF Checked(grown.buffer, size_) \/ Checked(grown.buffer, n) THEN Stop("abort")
           ELSE /\ buffer_' = Write(Write(grown.buffer, size_, chars), n, <<NUL>>)
                /\ size_' = n
                /\ sbpc' = sbpc
    /\ UNCHANGED <<buildVars, codecVars, parserVars, dumpVars, accessVars, copyVars, nullVars, tableVars, utfVars>>

\* StringBuffer::prepend(data, size) with size > 0: the memmove moves one
\* character, the terminator
Prepend(chars) ==
    /\ sbpc = "live"
    /\ Len(content) + Len(chars) <= MaxContent
    /\ content' = chars \o content
    /\ LET grown == ensure_capacity(buffer_, size_, size_ + Len(chars) + 1)
           n == size_ + Len(chars)
       IN  IF grown.thrown # "" THEN Stop("thrown")
           ELSE IF Checked(grown.buffer, n) THEN Stop("abort")
           ELSE /\ buffer_' = Write(Write(Write(grown.buffer, n, <<grown.buffer.data[size_ + 1]>>),
                                          0, chars), n, <<NUL>>)
                /\ size_' = n
                /\ sbpc' = sbpc
    /\ UNCHANGED <<buildVars, codecVars, parserVars, dumpVars, accessVars, copyVars, nullVars, tableVars, utfVars>>

\* StringBuffer::remove(index, count)
Remove(index, count) ==
    /\ sbpc = "live"
    /\ IF index >= size_
       THEN UNCHANGED <<buffer_, size_, content, sbpc>>
       ELSE LET c == IF count >= size_ - index THEN size_ - index ELSE count
                moved == SubSeq(buffer_.data, index + c + 1, size_ + 1)
            IN  /\ content' = SubSeq(content, 1, index) \o SubSeq(content, index + c + 1, Len(content))
                /\ IF Checked(buffer_, index + c) \/ Checked(buffer_, size_ - c)
                   THEN Stop("abort")
                   ELSE /\ buffer_' = Write(Write(buffer_, index, moved), size_ - c, <<NUL>>)
                        /\ size_' = size_ - c
                        /\ sbpc' = sbpc
    /\ UNCHANGED <<buildVars, codecVars, parserVars, dumpVars, accessVars, copyVars, nullVars, tableVars, utfVars>>

\* StringBuffer::clear()
Clear ==
    /\ sbpc = "live"
    /\ size_' = 0
    /\ buffer_' = Write(buffer_, 0, <<NUL>>)
    /\ content' = <<>>
    /\ sbpc' = sbpc
    /\ UNCHANGED <<buildVars, codecVars, parserVars, dumpVars, accessVars, copyVars, nullVars, tableVars, utfVars>>

StrSpec ==
    StrInit /\ [][\/ \E initial_size \in 0..MaxInitial : Construct(initial_size)
                  \/ \E chars \in Data : Append_(chars) \/ Prepend(chars)
                  \/ \E index \in 0..MaxContent, count \in 0..MaxContent : Remove(index, count)
                  \/ Clear]_vars

\* The innermost call is about to call view.front() or view.remove_prefix(1)
\* on an empty view: lines 178, 193, 207, 217, 241 and 251.
EmptyAccess ==
    \/ In("parseString", "loop") /\ view = <<>>
    \/ /\ In("parseObject", "entry") \/ In("parseArray", "entry")
       /\ skipWhitespace(view) # <<>>
       /\ skipWhitespace(view)[1] = (IF top.fn = "parseObject" THEN "{" ELSE "[")
       /\ skipWhitespace(Tail(skipWhitespace(view))) = <<>>
    \/ In("parseObject", "colon") /\ ret.type = "String" /\ skipWhitespace(view) = <<>>
    \/ /\ In("parseObject", "insert") \/ In("parseArray", "push")
       /\ skipWhitespace(view) = <<>>

\* how many calls of parseObject and parseArray are active
Depth == Cardinality({i \in 1..Len(stack) : stack[i].fn \in {"parseObject", "parseArray"}})

(***************************************************************************)
(* Claims about the codec.                                                 *)
(***************************************************************************)
\* The state right after pack(type, value) of one of the six tags returned.
JustPacked == cpc = "loaded" /\ buffer = packedBuf /\ packed.type \in Tags

\* unpack was called with the cursor at 0 (and has returned, thrown or aborted).
CalledAtZero == cpc \in {"called", "aborted"} /\ pos0 = 0

\* The envelope of section 3 for a packed (type, value): the tag byte, then
\* the payload with every multi-byte field most significant byte first.
Envelope(type, value) ==
    <<type>> \o
    CASE type = TagInteger -> ObjectBytes(value)
      [] type = TagReal -> ObjectBytes(value)
      [] type = TagBoolean -> <<IF value THEN 1 ELSE 0>>
      [] type = TagString -> ObjectBytes(Int32Limbs(Len(value))) \o value
      [] type = TagNull -> <<>>
      [] type = TagError -> ObjectBytes(Int32Limbs(value))

\* The payload length section 3 gives each tag.
PayloadLen(type, n) ==
    CASE type = TagInteger -> 8
      [] type = TagReal -> 8
      [] type = TagBoolean -> 1
      [] type = TagString -> 4 + n
      [] type = TagNull -> 0
      [] type = TagError -> 4

\* C1 (as stated): unpack, with the cursor at 0, of the buffer pack(tag, v)
\* returned gives back a value equal to v, for each of the six tags; for Error
\* the packed code is returned.
C1_RoundTrip ==
    (CalledAtZero /\ buffer = packedBuf /\ packed.type \in Tags)
        => /\ result.status = "ok"
           /\ result.value.tag = TagName(packed.type)
           /\ result.value = ValueOf(packed.type, packed.value)

\* C2 (as stated): pack writes the tag byte and then every multi-byte payload
\* field most significant byte first, whatever the host's byte order.
C2_BigEndian ==
    JustPacked => buffer = Envelope(packed.type, packed.value)

\* C3: a successful unpack(buffer, pos) advances pos by exactly 1 tag byte plus
\* the payload length of the decoded tag, and reads no byte outside the
\* envelope [pos0, pos).
C3_CursorAdvance ==
    (cpc = "called" /\ result.status = "ok")
        => /\ pos = pos0 + 1 + PayloadLen(buffer[pos0 + 1],
                                        IF buffer[pos0 + 1] = TagString
                                        THEN Len(result.value.v) ELSE 0)
           /\ pos <= Len(buffer)
           /\ result.reads \subseteq pos0..(pos - 1)

\* a String of at least one byte was decoded from a buffer that goes on after it
C3_Witness ==
    /\ cpc = "called"
    /\ result.status = "ok"
    /\ result.value.tag = "String"
    /\ Len(result.value.v) > 0
    /\ pos < Len(buffer)

\* a second envelope was decoded from a cursor that is not 0
C3_WitnessSecond ==
    cpc = "called" /\ result.status = "ok" /\ pos0 > 0

\* C4: unpack on a proper prefix of a buffer pack produced fails with
\* out_of_range and reads no byte at an index >= the prefix's length.
C4_Truncation ==
    (CalledAtZero /\ packed.type \in Tags /\ Len(buffer) < Len(packedBuf))
        => /\ buffer = SubSeq(packedBuf, 1, Len(buffer))
           /\ result.status = "throw"
           /\ result.exc = "out_of_range"
           /\ \A i \in result.reads : i < Len(buffer)

\* a String envelope cut inside its payload was rejected
C4_Witness ==
    /\ CalledAtZero
    /\ packed.type = TagString
    /\ Len(buffer) < Len(packedBuf)
    /\ Len(buffer) > 5
    /\ result.status = "throw"

\* C5: unpack at a byte that is none of the six tags throws the
\* unsupported-type error (invalid_argument "Unsupported binary type" in
\* pack_unpack.cpp, runtime_error "Unknown binary type" in the header), returns
\* no value, and the error is not the out_of_range of a short buffer.
C5_UnknownTag ==
    (cpc \in {"called", "aborted"} /\ pos0 < Len(buffer) /\ buffer[pos0 + 1] \notin Tags)
        => /\ result.status = "throw"
           /\ result.value = NoValue
           /\ result.exc # "out_of_range"
           /\ <<result.exc, result.what>> =
                 IF impl = "cpp" THEN <<"invalid_argument", "Unsupported binary type">>
                 ELSE <<"runtime_error", "Unknown binary type">>

\* the tag of a packed envelope was replaced by 'x' and unpack rejected it
C5_Witness ==
    /\ CalledAtZero
    /\ Len(buffer) > 1
    /\ buffer[1] = 120
    /\ result.status = "throw"

\* C6 (as stated): the buffer pack returns starts with the tag and has 1 byte
\* plus the payload length of the tag: 8, 8, 1, 4 + n, 0, 4.
C6_PackLength ==
    JustPacked
        => /\ buffer[1] = packed.type
           /\ Len(buffer) = 1 + PayloadLen(packed.type,
                                           IF packed.type = TagString
                                           THEN Len(packed.value) ELSE 0)

(***************************************************************************)
(* Claims about the parser.                                                *)
(***************************************************************************)
\* Parser::parse has ended, and not because the file could not be opened.
Ended == ppc \in {"done", "error", "abort", "crash"} /\ err # "Failed to open file"

\* the keys written in the member list m
KeysOf(m) == {m[i][1] : i \in 1..Len(m)}

\* the last member of m written under key k
LastIndex(m, k) ==
    CHOOSE i \in 1..Len(m) : m[i][1] = k /\ \A j \in (i + 1)..Len(m) : m[j][1] # k

\* the Object a member list denotes when the last occurrence of a key wins
LastWins(m) == [k \in KeysOf(m) |-> JsonInt(m[LastIndex(m, k)][2])]

\* C7: an object text in which keys may repeat parses, without any failure,
\* to an Object that holds one entry per distinct key, each with the value of
\* the last occurrence of the key in the text.
C7_LastWriteWins ==
    Ended =>
        \A m \in MemberLists :
            fileText = ObjectText(m) =>
                /\ ppc = "done"
                /\ root.type = "Object"
                /\ root.v = LastWins(m)
                /\ Cardinality(DOMAIN root.v) = Cardinality(KeysOf(m))

\* {"a":1,"b":1,"a":2} has been parsed: two entries, a is 2
C7_Witness ==
    /\ ppc = "done"
    /\ fileText = ObjectText(<<<<<<"a">>, <<"1">>>>, <<<<"b">>, <<"1">>>>, <<<<"a">>, <<"2">>>>>>)
    /\ DOMAIN root.v = {<<"a">>, <<"b">>}
    /\ root.v[<<"a">>] = JsonInt(<<"2">>)

\* whitespace as section 4 of the specification defines it: space, tab, CR, LF
JsonSpace == {" ", "\t", "\n", "\r"}

\* C8: once the root value has been parsed, parse fails with the end of input
\* expected error if a character other than whitespace remains, and returns
\* the root if only whitespace remains.
C8_EndOfInput ==
    [][(ppc = "run" /\ stack = <<>>) =>
          IF \A i \in 1..Len(view) : view[i] \in JsonSpace
          THEN ppc' = "done" /\ root' = ret
          ELSE /\ ppc' = "error"
               /\ err' = "Extra data after valid JSON value"
               /\ root' = NoRet]_vars

\* C9: parse ends either by returning a complete root for a fully consumed
\* input or by raising an error with no value; nothing else ends it.
C9_AllOrNothing ==
    /\ ppc \in {"start", "run", "done", "error"}
    /\ ppc = "done" => root # NoRet /\ view = <<>> /\ stack = <<>>
    /\ ppc = "error" => root = NoRet /\ err \in Messages \cup {"Failed to open file"}

Integral(text) == \A i \in 1..Len(text) : text[i] \notin {".", "e", "E"}

\* the value of an integral literal lies in -2^63 .. 2^63 - 1
InInt64(text) ==
    LET neg == text[1] = "-"
        mag == Canon(DigitsOf(IF neg THEN Tail(text) ELSE text))
    IN  Less(mag, Pow2_63) \/ (neg /\ mag = Pow2_63)

\* C10: a numeric literal becomes an Integer of exactly its value when it has
\* no '.', no 'e' or 'E' and lies in the int64_t range, and a Double
\* otherwise.
C10_Classification ==
    (ppc = "done" /\ fileText \in NumberTexts) =>
        /\ root.type = "Number"
        /\ root.alt \in {"int64_t", "double"}
        /\ (root.alt = "int64_t") <=> (IF Integral(fileText) THEN InInt64(fileText) ELSE FALSE)
        /\ root.alt = "int64_t" => root.v = fileText

\* text is a number of the grammar of section 4:
\* '-'? digits ('.' digits)? (('e'|'E') ('+'|'-')? digits)?
IsNumber(text) ==
    LET at(i) == IF i <= Len(text) THEN text[i] ELSE ""
        n0 == IF at(1) = "-" THEN 1 ELSE 0
        n1 == SpanLen(text, n0 + 1, Digit)
        n2 == IF at(n1 + 1) = "." THEN SpanLen(text, n1 + 2, Digit) ELSE n1
        e0 == IF at(n2 + 2) \in {"+", "-"} THEN n2 + 2 ELSE n2 + 1
        n3 == IF at(n2 + 1) \in {"e", "E"} THEN SpanLen(text, e0 + 1, Digit) ELSE n2
    IN  /\ n1 > n0
        /\ at(n1 + 1) = "." => n2 > n1 + 1
        /\ at(n2 + 1) \in {"e", "E"} => n3 > e0
        /\ n3 = Len(text)

\* C11: a text made of the characters of number tokens is parsed to a value
\* only if it is a number of the grammar; every other one ("-", "1.", "1e",
\* "1e+") is rejected with an error.
C11_NumberGrammar ==
    (Ended /\ fileText \in NumberTokens /\ ~IsNumber(fileText)) => ppc = "error"

\* the UTF-8 sequence of four bytes of a code point above U+FFFF
Utf8Four(cp) ==
    <<Chr(240 + Bits(cp, 18, 7)), Chr(128 + Bits(cp, 12, 63)),
      Chr(128 + Bits(cp, 6, 63)), Chr(128 + Bits(cp, 0, 63))>>

\* the code point a high and a low surrogate stand for
Combined(hi, lo) == 65536 + ((hi - 55296) * 1024) + (lo - 56320)

\* C12: a high surrogate escape (D800-DBFF) directly followed by a low
\* surrogate escape (DC00-DFFF) is decoded to one code point above U+FFFF,
\* written as four UTF-8 bytes; a surrogate escape outside such a pair makes
\* the parse fail.
C12_SurrogatePairs ==
    (Ended /\ fileText \in SurrogateTexts) =>
        LET hi == HexToInt(SubSeq(fileText, 4, 7), 0)
            lo == IF Len(fileText) = 14 THEN HexToInt(SubSeq(fileText, 10, 13), 0) ELSE 0
        IN  IF hi >= 55296 /\ hi <= 56319 /\ lo >= 56320 /\ lo <= 57343
            THEN ppc = "done" /\ root = JsonString(Utf8Four(Combined(hi, lo)))
            ELSE ppc = "error"

HexChars ==
    {"0", "1", "2", "3", "4", "5", "6", "7", "8", "9",
     "a", "b", "c", "d", "e", "f", "A", "B", "C", "D", "E", "F"}

\* body, the characters that follow a backslash up to the closing quote, is
\* one of the escapes of JSON
IsEscape(body) ==
    \/ Len(body) = 1 /\ body[1] \in {"\"", "\\", "/", "b", "f", "n", "r", "t"}
    \/ Len(body) = 5 /\ body[1] = "u" /\ \A i \in 2..5 : body[i] \in HexChars

\* the escape body of a text of EscapeTexts
EscapeBody(text) ==
    LET l == IF text[1] = "[" THEN SubSeq(text, 2, Len(text) - 1) ELSE text
    IN  SubSeq(l, 3, Len(l) - 1)

\* C13: a string literal whose backslash escape is not one of the eight
\* simple escapes nor \u with exactly four hexadecimal digits makes the parse
\* fail with an error, at the root and inside an array alike.
C13_Escapes ==
    (Ended /\ fileText \in EscapeTexts /\ ~IsEscape(EscapeBody(fileText))) => ppc = "error"

\* C14: no step of a parse reads or removes a character of an empty view,
\* and every input that ends inside a string literal, an object or an array,
\* or after a leading '-', ends the parse with an error.
C14_PrematureEnd ==
    /\ ~EmptyAccess
    /\ (Ended /\ fileText \in PrematureTexts) => ppc = "error"

\* C15: there is a ceiling D on the nesting depth of the active calls, and a
\* text that nests deeper than D fails with a StackOverflow error.  Checked
\* for every ceiling below the deepest text generated.
C15_DepthCeiling ==
    \E D \in 0..(MaxNest - 1) :
        /\ Depth <= D
        /\ \A n \in (D + 1)..MaxNest :
              (Ended /\ fileText \in {NestedText(n, "["), NestedText(n, "{")}) =>
                  ppc = "error" /\ err = "StackOverflow"

(***************************************************************************)
(* Claims about the serializer and the round trip through the parser.      *)
(***************************************************************************)
\* the text the serializer wrote has been parsed, whatever the result
Reparsed == dpc = "written" /\ Ended

\* a decimal without trailing zeros in its digits
Normal(d) ==
    LET n == Len(d.digits)
        m == CHOOSE i \in 0..n :
                 /\ i = 0 \/ d.digits[i] # 0
                 /\ \A j \in (i + 1)..n : d.digits[j] = 0
    IN  IF m = 0 THEN [neg |-> d.neg, digits |-> <<0>>, exp |-> 0]
        ELSE [neg |-> d.neg, digits |-> SubSeq(d.digits, 1, m), exp |-> d.exp + (n - m)]

\* two texts of doubles have the same value
SameDouble(a, b) ==
    IF a = Infinity \/ b = Infinity THEN a = b
    ELSE Normal(DecimalOf(a)) = Normal(DecimalOf(b))

\* no Double of the tree is changed by formatting: it is finite and the text
\* written for it has its value
RECURSIVE Lossless(_)
Lossless(t) ==
    CASE t.alt = "double" ->
            t.v # Infinity /\ SameDouble(FormatG(DecimalOf(t.v)), t.v)
      [] t.alt = "JsonObject" -> \A k \in DOMAIN t.v : Lossless(t.v[k])
      [] t.alt = "JsonArray" -> \A i \in 1..Len(t.v) : Lossless(t.v[i])
      [] OTHER -> TRUE

\* same tag at every node, same payloads, same array order, same key set
RECURSIVE StructurallyEqual(_, _)
StructurallyEqual(a, b) ==
    /\ a.alt = b.alt
    /\ CASE a.alt = "double" -> SameDouble(a.v, b.v)
         [] a.alt = "JsonObject" ->
               /\ DOMAIN a.v = DOMAIN b.v
               /\ \A k \in DOMAIN a.v : StructurallyEqual(a.v[k], b.v[k])
         [] a.alt = "JsonArray" ->
               /\ Len(a.v) = Len(b.v)
               /\ \A i \in 1..Len(a.v) : StructurallyEqual(a.v[i], b.v[i])
         [] OTHER -> a.v = b.v

\* C16: when the text the serializer wrote for a tree whose Doubles are not
\* changed by formatting has been parsed, the parse succeeded and its root is
\* structurally equal to the tree: an Integer is an Integer again and a
\* Double a Double.
C16_RoundTrip ==
    (Reparsed /\ Lossless(tree)) => ppc = "done" /\ StructurallyEqual(root, tree)

\* C17: the text written for the root parsed from the text of a tree is the
\* text that was written for the tree.
C17_Idempotence == dpc = "rewritten" => redumped = dumped

\* the characters of s that the serializer escapes
Special(s) == {i \in 1..Len(s) : s[i] \in {"\"", "\\"}}

\* body with the backslash of every pair of a backslash and a character removed
RECURSIVE Unescaped(_)
Unescaped(body) ==
    IF body = <<>> THEN <<>>
    ELSE IF body[1] = "\\" /\ Len(body) > 1
    THEN <<body[2]>> \o Unescaped(Drop(body, 2))
    ELSE <<body[1]>> \o Unescaped(Tail(body))

\* body has a quote that no backslash escapes, or ends in a lone backslash
RECURSIVE BareQuote(_)
BareQuote(body) ==
    /\ body # <<>>
    /\ IF body[1] = "\\" THEN Len(body) = 1 \/ BareQuote(Drop(body, 2))
       ELSE body[1] = "\"" \/ BareQuote(Tail(body))

\* the text at position at of dumped is s between double quotes, every quote
\* and backslash of s preceded by a backslash and nothing else added
WrittenAt(at, s) ==
    LET n == Len(s) + Cardinality(Special(s))
        body == SubSeq(dumped, at + 1, at + n)
    IN  /\ Len(dumped) >= at + n + 1
        /\ dumped[at] = "\""
        /\ dumped[at + n + 1] = "\""
        /\ ~BareQuote(body)
        /\ Unescaped(body) = s

\* the tree is a String, or an Object of one member
OneString == dpc # "built" /\ tree.alt = "string"
OneKey == dpc # "built" /\ tree.alt = "JsonObject" /\ Cardinality(DOMAIN tree.v) = 1

\* C18: a String is written between double quotes with every quote and
\* backslash preceded by a backslash, and so is the key of an object; the
\* text holds no unescaped quote, and parsing it gives the string, or the
\* key, back exactly.
C18_Escaping ==
    /\ OneString => WrittenAt(1, tree.v) /\ Len(dumped) = Len(tree.v) + Cardinality(Special(tree.v)) + 2
    /\ (OneString /\ Ended) => ppc = "done" /\ root.alt = "string" /\ root.v = tree.v
    /\ OneKey => \A k \in DOMAIN tree.v : dumped[1] = "{" /\ WrittenAt(2, k)
    /\ (OneKey /\ Ended) => ppc = "done" /\ root.alt = "JsonObject" /\ DOMAIN root.v = DOMAIN tree.v

\* String(a"b) has been written as "a\"b" and parsed back to a"b
C18_Witness ==
    /\ OneString
    /\ tree.v = <<"a", "\"", "b">>
    /\ dumped = <<"\"", "a", "\\", "\"", "b", "\"">>
    /\ ppc = "done"
    /\ root.alt = "string"
    /\ root.v = <<"a", "\"", "b">>

\* an object whose key holds a backslash and a quote has been written and parsed back
C18_WitnessKey ==
    /\ OneKey
    /\ DOMAIN tree.v = {<<"\\", "\"">>}
    /\ ppc = "done"
    /\ root.alt = "JsonObject"
    /\ DOMAIN root.v = {<<"\\", "\"">>}

\* C19: the text written for a tree does not depend on the order in which
\* the keys of its objects were inserted: every order in which the maps may
\* be iterated gives the text that was written.
C19_Canonical ==
    dpc # "built" => \A order \in KeyOrders : dumpValue(tree, order) = dumped

(***************************************************************************)
(* Claims about jasson::Value.                                             *)
(***************************************************************************)
\* the tag an accessor asks for
TagOf(fn) ==
    CASE fn = "as_bool" -> "Boolean"
      [] fn = "as_integer" -> "Integer"
      [] fn = "as_double" -> "Double"
      [] fn = "as_string" -> "String"
      [] fn = "as_array" -> "Array"
      [] fn = "as_object" -> "Object"

\* the payload stored in a Value of the given tag
PayloadOf(tag, value) ==
    CASE tag = "Boolean" -> value.boolean_
      [] tag = "Integer" -> value.integer_
      [] tag = "Double" -> value.double_
      [] tag = "String" -> value.string_
      [] tag = "Array" -> value.array_
      [] tag = "Object" -> value.object_

\* C20: an accessor called on a Value of its tag returns the stored payload;
\* called on a Value of any other tag it fails with the wrong-type exception;
\* a call that failed left the tag and the payload of the Value as they were.
C20_CheckedAccess ==
    /\ [](got.status # "none" =>
            IF val.type_ = TagOf(got.fn)
            THEN got.status = "returned" /\ got.value = PayloadOf(val.type_, val)
            ELSE got.status = "thrown" /\ got.what = "std::bad_variant_access")
    /\ [][got'.status = "thrown" => val' = val]_vars

\* as_object has been called on an Integer and has failed
C20_Witness ==
    /\ val.type_ = "Integer"
    /\ val.integer_ = 123
    /\ got.fn = "as_object"
    /\ got.status = "thrown"

(***************************************************************************)
(* Claims about the containers.                                            *)
(***************************************************************************)
\* the children of a container, each with the value of its node
Children(side) == [k \in DOMAIN Container(side) |-> heap[Container(side)[k]]]

\* the nodes a container points to
Nodes(side) == {Container(side)[k] : k \in DOMAIN Container(side)}

\* C21: a container and its copy share no child node, and a mutation made
\* through one of them leaves the children of the other as they were.
C21_DeepCopy ==
    /\ [](kpc = "copied" => Nodes("original") \cap Nodes("copy") = {})
    /\ [][/\ last' = "copy" => Children("original")' = Children("original")
          /\ last' = "original" => Children("copy")' = Children("copy")]_vars

\* C22: no call of NullValue() writes to the shared instance once it is
\* constructed, so no thread is ever in a store to it, and no store of one
\* thread overlaps a store or a read of another.
C22_NullNeverMutated ==
    /\ \A t \in 1..MaxThreads : made => tpc[t] # "writing"
    /\ \A t, u \in 1..MaxThreads :
          (t # u /\ tpc[t] = "writing") => tpc[u] \notin {"writing", "reading"}

(***************************************************************************)
(* Claims about HashTable.                                                 *)
(***************************************************************************)
\* thread t has run the body of op and has not returned yet
Ran(t, op) == thr[t].pc = "return" /\ thr[t].op = op

\* C23: when insert(key, value) has run, the map holds value under key,
\* whether or not the key was present; it returns true exactly when the key
\* was absent, and the size has grown by one in that case only.
C23_InsertOrAssign ==
    \A t \in 1..MaxThreads :
        Ran(t, "insert") =>
            /\ thr[t].key \in DOMAIN map_
            /\ map_[thr[t].key] = thr[t].value
            /\ thr[t].ret = <<~thr[t].had>>
            /\ Cardinality(DOMAIN map_) = thr[t].n + (IF thr[t].had THEN 0 ELSE 1)

\* thread t is in an operation that writes the map, or in one that reads it
Writer(t) == thr[t].pc # "idle" /\ thr[t].op \in {"insert", "erase", "clear"}
Reader(t) == thr[t].pc # "idle" /\ thr[t].op \in {"find", "size"}

\* C24: a writer is in its operation only as the exclusive owner of the
\* mutex and a reader only as a shared owner; while a writer is in its
\* operation no other thread is in one; a thread that has returned holds
\* nothing.
C24_ReadersWriters ==
    \A t \in 1..MaxThreads :
        /\ Writer(t) => mutex_.owner = t /\ mutex_.sharers = {}
        /\ Writer(t) => \A u \in 1..MaxThreads \ {t} : thr[u].pc = "idle"
        /\ Reader(t) => t \in mutex_.sharers /\ mutex_.owner = 0
        /\ thr[t].pc = "idle" => mutex_.owner # t /\ t \notin mutex_.sharers

\* two readers are in their operations at once, after a writer put a key in
C24_Witness ==
    /\ Reader(1) /\ thr[1].pc = "access"
    /\ Reader(2) /\ thr[2].pc = "access"
    /\ "a" \in DOMAIN map_

\* a writer is in its operation alone
C24_WitnessWriter == Writer(1) /\ thr[1].pc = "return" /\ mutex_.owner = 1

(***************************************************************************)
(* Claims about Utf8.                                                      *)
(***************************************************************************)
\* a code point that has an encoding
Scalar(cp) == 0 <= cp /\ cp <= 1114111 /\ ~(55296 <= cp /\ cp <= 57343)

\* C25: encode of a code point that is not a surrogate appends n bytes, n in
\* 1..4, and returns n; decode of these bytes from index 0 returns the code
\* point and leaves the index at n; encode of a code point below 0 or above
\* 0x10FFFF throws std::out_of_range.
C25_EncodeDecode ==
    /\ (calls = <<"encode">> /\ Scalar(ucp)) =>
            ures = <<"", Len(ustr)>> /\ Len(ustr) \in 1..4
    /\ (calls = <<"encode">> /\ (ucp < 0 \/ ucp > 1114111)) =>
            ures[1] = "std::out_of_range" /\ ustr = <<>>
    /\ (calls = <<"encode", "decode">> /\ Scalar(ucp)) =>
            ures = <<ucp>> /\ uindex = Len(ustr)

\* the code point a sequence of len bytes at index i stands for, the leading
\* byte giving 7, 5, 4 or 3 bits and each continuation byte 6
RECURSIVE Payload(_, _, _)
Payload(str, i, len) ==
    IF len = 1 THEN str[i + 1] % (IF str[i + 1] < 128 THEN 128
                                  ELSE IF str[i + 1] < 224 THEN 32
                                  ELSE IF str[i + 1] < 240 THEN 16 ELSE 8)
    ELSE (Payload(str, i, len - 1) * 64) + (str[i + len] % 64)

\* well-formed UTF-8 from index i on: whole sequences, shortest form, no
\* surrogate, nothing above 0x10FFFF
RECURSIVE WellFormed(_, _)
WellFormed(str, i) ==
    IF i >= Len(str) THEN TRUE
    ELSE LET len == LeadLen(str[i + 1])
         IN  /\ len # 0
             /\ i + len <= Len(str)
             /\ \A j \in 2..len : 128 <= str[i + j] /\ str[i + j] <= 191
             /\ Scalar(Payload(str, i, len))
             /\ encode(Payload(str, i, len)).ret = len
             /\ WellFormed(str, i + len)

\* C26: isValid returns true exactly for the well-formed strings: it accepts
\* the three-byte and four-byte sequences and rejects overlong forms,
\* surrogates, code points above 0x10FFFF, stray continuation bytes and
\* truncated sequences.
C26_IsValid ==
    (calls # <<>> /\ calls[Len(calls)] = "isValid") => ures = <<WellFormed(ustr, 0)>>

(***************************************************************************)
(* Claims about the cursor of the parser.                                  *)
(***************************************************************************)
\* w is what is left of v after some characters at its front are consumed
Suffix(w, v) == \E n \in 0..Len(v) : w = Drop(v, n)

\* C27: across every step of a parse, in every parsing function, the view
\* after the step is a suffix of the view before it, the steps that fail
\* included: nothing that was consumed is ever seen again.
C27_ForwardOnly == [][ppc = "run" => Suffix(view', view)]_vars

(***************************************************************************)
(* Claims about StringBuffer.                                              *)
(***************************************************************************)
\* C28: from a new buffer on and after any append, prepend, remove and
\* clear, size() is the length of the sequence these calls describe (data
\* appended at the end, data prepended at the front with the content kept
\* after it, the characters [index, index + count) clipped to the end
\* deleted, nothing deleted for index >= size) and str() is that sequence.
\* Appending "Hello", " ", "World" to a new buffer is one such case.
C28_CharacterSequence ==
    sbpc = "live" => size_ = Len(content) /\ Str = content

(***************************************************************************)
(* Claims about the termination of the parser.                             *)
(***************************************************************************)
\* the innermost call is in the character loop of parseString, or at the end
\* of a turn of the member loop of parseObject or the element loop of parseArray
LoopTurn ==
    \/ In("parseString", "loop")
    \/ In("parseObject", "insert")
    \/ In("parseArray", "push")

\* C29: every turn of the character loop of parseString, of the member loop
\* of parseObject and of the element loop of parseArray consumes at least
\* one character or raises an error, and every parse ends: Parser::parse
\* returns a root or raises an error.
C29_Terminates ==
    /\ [][LoopTurn => Len(view') < Len(view) \/ ppc' = "error"]_vars
    /\ <>(ppc \in {"done", "error"})

(***************************************************************************)
(* Claims about the cursor of unpack.                                      *)
(***************************************************************************)
\* C30: a call of unpack with pos <= buffer.size() leaves pos <=
\* buffer.size(), whether it returns or fails; a call that finds no byte at
\* the cursor (pos >= buffer.size() on entry) fails and leaves pos as it
\* was; and no call changes the buffer.
C30_CursorInside ==
    /\ [](cpc \in {"called", "aborted"} =>
              /\ pos0 <= Len(buffer) => pos <= Len(buffer)
              /\ pos0 >= Len(buffer) => result.status = "throw" /\ pos = pos0)
    /\ [][cpc' \in {"called", "aborted"} => buffer' = buffer]_vars

\* after an envelope was decoded up to the end of the buffer, another call
\* failed there and left the cursor at the end
C30_Witness ==
    /\ cpc = "called"
    /\ pos0 = Len(buffer)
    /\ pos0 > 0
    /\ result.status = "throw"
    /\ pos = pos0

\* a call failed after the tag byte, inside a buffer that was cut short
C30_WitnessCut ==
    /\ cpc = "called"
    /\ result.status = "throw"
    /\ pos = pos0 + 1
    /\ pos < Len(buffer)
====
